---------------------------- MODULE Spec2Model ----------------------------
(***************************************************************************)
(* A model of the ADS-B collector (src/adsb_collector_latest.py): the      *)
(* BaseStation decoder, the flight lifecycle (get_or_create_flight and     *)
(* cleanup_stale_flights over the flights table and the active_flights     *)
(* index) and the supervisor loop of main().                               *)
(*                                                                         *)
(* Time is one clock, counted in ticks of TickMinutes minutes; the         *)
(* process's datetime.now()/time.time() and the store's CURRENT_TIMESTAMP  *)
(* / SYSDATE all read it.                                                  *)
(***************************************************************************)
EXTENDS Integers, Sequences, FiniteSets, TLC

\* ------------------------------------------------------------------ bounds
\* Length of one clock tick, in minutes.
TickMinutes == 35
\* The clock stops advancing at MaxTime ticks.
MaxTime == 2
\* The feed delivers at most MaxFeed complete lines in all.
MaxFeed == 3
\* One recv() delivers at most MaxChunk complete lines.
MaxChunk == 2
\* The alerts table holds at most MaxRules active rules.
MaxRules == 2
\* The resolve harness starts from a flights table of at most MaxStoreFlights
\* rows.
MaxStoreFlights == 2

\* ------------------------------------------------- configuration (lines 80-84)
\* Source value 10000; scaled so that the restart is reached within MaxFeed
\* lines.
MAX_MESSAGES_BEFORE_RESTART == 2
FLIGHT_TIMEOUT_MINUTES == 60
CLEANUP_INTERVAL_SECONDS == 600
\* main(): commit_interval = 10  (seconds)
commit_interval == 10

\* --------------------------------------------------------- optional values
\* Python's None is the empty tuple, a present value v the one-element tuple.
None == <<>>
Some(v) == <<v>>

\* ------------------------------------------------------------ str methods
\* str.strip() over the field texts the model feeds the decoder.
Strip(s) ==
  CASE s = " "          -> ""
    [] s = "  "         -> ""
    [] s = " MSG"       -> "MSG"
    [] s = " 450 "      -> "450"
    [] s = "baw123 "    -> "baw123"
    [] s = " BAW123 "   -> "BAW123"
    [] s = " a1b2c3"    -> "a1b2c3"
    [] s = "0 "         -> "0"
    [] OTHER            -> s

\* line.strip() seen through the split: only the first field loses leading
\* and the last field trailing white space.
LStrip(s) ==
  CASE s = " "          -> ""
    [] s = "  "         -> ""
    [] s = " MSG"       -> "MSG"
    [] s = " 450 "      -> "450 "
    [] s = " BAW123 "   -> "BAW123 "
    [] s = " a1b2c3"    -> "a1b2c3"
    [] OTHER            -> s

RStrip(s) ==
  CASE s = " "          -> ""
    [] s = "  "         -> ""
    [] s = " 450 "      -> " 450"
    [] s = "baw123 "    -> "baw123"
    [] s = " BAW123 "   -> " BAW123"
    [] s = "0 "         -> "0"
    [] OTHER            -> s

\* str.upper()
Upper(s) ==
  CASE s = "baw123"     -> "BAW123"
    [] s = "baw123 "    -> "BAW123 "
    [] s = "abc"        -> "ABC"
    [] s = "12a"        -> "12A"
    [] s = "a1b2c3"     -> "A1B2C3"
    [] s = " a1b2c3"    -> " A1B2C3"
    [] s = "c0ffee"     -> "C0FFEE"
    [] OTHER            -> s

\* int(text): the integer, or ValueError.  Python accepts surrounding white
\* space and a sign; anything else (letters, a decimal point, blanks only)
\* raises.
IntTexts == {"0", "1", "3", "90", "450", " 450 ", " 450", "450 ", "7000",
             "36000", "35000", "-500", "0 "}

IntValue(s) ==
  CASE s = "0"          -> 0
    [] s = "0 "         -> 0
    [] s = "1"          -> 1
    [] s = "3"          -> 3
    [] s = "90"         -> 90
    [] s \in {"450", " 450 ", " 450", "450 "} -> 450
    [] s = "7000"       -> 7000
    [] s = "35000"      -> 35000
    [] s = "36000"      -> 36000
    [] s = "-500"       -> -500

\* float(text): every int text, plus decimal texts; the value is kept in
\* thousandths.
FloatTexts == IntTexts \cup {"51.5", "-0.1"}

FloatValue(s) ==
  CASE s = "51.5"       -> 51500
    [] s = "-0.1"       -> -100
    [] OTHER            -> IntValue(s) * 1000

\* datetime.strptime(f"{date} {time}", "%Y/%m/%d %H:%M:%S.%f") succeeds on
\* these pairs only.
DateTexts == {"2026/01/21"}
TimeTexts == {"12:00:00.000"}


\* ---------------------------------------------------------------- decoder
\* A line is the sequence of its comma-separated field texts, as
\* line.split(',') yields them; Fld reads a field by the source's 0-based
\* position.
Fld(fields, i) == fields[i + 1]

\* fields = line.strip().split(',')   (line 489)
StripLine(raw) ==
  [i \in 1..Len(raw) |->
     IF Len(raw) = 1 THEN Strip(raw[i])
     ELSE IF i = 1 THEN LStrip(raw[i])
     ELSE IF i = Len(raw) THEN RStrip(raw[i])
     ELSE raw[i]]

\* Positions converted with int(...) and with float(...)  (lines 511-524)
IntFields == {1, 11, 12, 13, 16, 18, 19, 20, 21}
FloatFields == {14, 15}

\* int(f) if f else None
OptInt(s) == IF s = "" THEN None ELSE Some(IntValue(s))
\* float(f) if f else None
OptFloat(s) == IF s = "" THEN None ELSE Some(FloatValue(s))
\* f.strip() if f else None
OptStrip(s) == IF s = "" THEN None ELSE Some(Strip(s))

\* Whether building the data dict raises ValueError: some int(...) or
\* float(...) is applied to a non-empty text it cannot convert.
ConversionRaises(fields) ==
  \/ \E i \in IntFields : Fld(fields, i) # "" /\ Fld(fields, i) \notin IntTexts
  \/ \E i \in FloatFields : Fld(fields, i) # "" /\ Fld(fields, i) \notin FloatTexts

\* Lines 500-507: the callsign is stripped when the field is non-empty, and
\* upper-cased and reset to None only inside "if callsign:"; a field of
\* blanks strips to "" and skips that block.
DecodeCallsign(f) ==
  IF f = "" THEN None
  ELSE LET c == Strip(f)
       IN  IF c # ""
           THEN (IF Upper(Strip(c)) # "" THEN Some(Upper(Strip(c))) ELSE None)
           ELSE Some(c)

\* Lines 527-539: strptime inside try/except; any failure gives None.
DecodeTime(d, t) ==
  IF d # "" /\ t # ""
  THEN (IF d \in DateTexts /\ t \in TimeTexts THEN Some(<<d, t>>) ELSE None)
  ELSE None

\* Mutant of StructuralReject: the message kind is not looked at.
StructuralRejectLengthOnly(fields) == Len(fields) < 22

\* Lines 491-498: too few fields, or not a MSG record.
StructuralReject(fields) ==
  IF Len(fields) < 22 THEN TRUE ELSE Fld(fields, 0) # "MSG"

\* parse_basestation_message(line): a report, None, or an exception raised
\* to the caller.
parse_basestation_message(raw) ==
  LET fields == StripLine(raw)
  IN  IF StructuralReject(fields) THEN [kind |-> "none"]
      ELSE IF ConversionRaises(fields) THEN [kind |-> "raise"]
      ELSE [kind |-> "report",
            data |-> [msg_type          |-> Fld(fields, 0),
                      transmission_type |-> OptInt(Fld(fields, 1)),
                      icao_address      |-> OptStrip(Fld(fields, 4)),
                      callsign          |-> DecodeCallsign(Fld(fields, 10)),
                      altitude          |-> OptInt(Fld(fields, 11)),
                      ground_speed      |-> OptInt(Fld(fields, 12)),
                      track             |-> OptInt(Fld(fields, 13)),
                      latitude          |-> OptFloat(Fld(fields, 14)),
                      longitude         |-> OptFloat(Fld(fields, 15)),
                      vertical_rate     |-> OptInt(Fld(fields, 16)),
                      squawk            |-> OptStrip(Fld(fields, 17)),
                      alert             |-> OptInt(Fld(fields, 18)),
                      emergency         |-> OptInt(Fld(fields, 19)),
                      spi               |-> OptInt(Fld(fields, 20)),
                      is_on_ground      |-> OptInt(Fld(fields, 21)),
                      reported_time     |-> DecodeTime(Fld(fields, 6), Fld(fields, 7))]]

\* Python truthiness of a text held in an optional value: None and "" are
\* falsy.
Truthy(o) == o # None /\ o # Some("")

\* ------------------------------------------------------- flight lifecycle
\* The flights table is the sequence of its rows, a row's flight_id its
\* position: [icao_address, callsign, is_active, last_contact].  The index
\* active_flights is a function from the cached addresses to
\* [flight_id, last_seen].  Flight id 0 stands for "no row".

\* Points of store_position at which a cursor call may raise: none, the
\* statements of ensure_aircraft_exists, the SELECT of get_or_create_flight,
\* its UPDATE or INSERT, the INSERT into alert_history, the INSERT into
\* positions.
FailPoints == {"none", "aircraft", "query", "flight", "alert", "alert_first", "position"}

\* Mutant of WithinTimeout: the SELECT without its last_contact condition.
WithinTimeoutAlways(last_contact, t) == TRUE

\* SQL: last_contact > SYSDATE - (:timeout/1440)
WithinTimeout(last_contact, t) ==
  (t - last_contact) * TickMinutes < FLIGHT_TIMEOUT_MINUTES

\* Python: current_time - last_seen > timedelta(minutes=FLIGHT_TIMEOUT_MINUTES)
PastTimeout(last, t) ==
  (t - last) * TickMinutes > FLIGHT_TIMEOUT_MINUTES

\* if icao_address in active_flights   (line 399)
CacheHit(af, icao) == icao \in DOMAIN af

\* The rows the SELECT of lines 424-434 matches.
QueryRows(fl, icao, t) ==
  {f \in 1..Len(fl) : /\ fl[f].icao_address = icao
                      /\ fl[f].is_active
                      /\ WithinTimeout(fl[f].last_contact, t)}

\* Mutant of QueryResults: the SELECT has no ORDER BY, so any candidate row
\* may come first.
QueryResultsAnyRow(fl, icao, t) ==
  IF QueryRows(fl, icao, t) = {} THEN {0} ELSE QueryRows(fl, icao, t)

\* ORDER BY last_contact DESC FETCH FIRST 1 ROWS ONLY; fetchone() (line 436):
\* a row with the greatest last_contact, or 0 for no row.  Among equal
\* last_contact values the store may return any of them.
QueryResults(fl, icao, t) ==
  LET rows == QueryRows(fl, icao, t)
  IN  IF rows = {} THEN {0}
      ELSE {f \in rows : \A g \in rows : fl[g].last_contact <= fl[f].last_contact}

\* Mutant of UpdateFlight: the UPDATE sets the callsign only.
UpdateFlightKeepingContact(fl, fid, callsign, t) ==
  [f \in 1..Len(fl) |->
     IF f = fid /\ Truthy(callsign) THEN [fl[f] EXCEPT !.callsign = callsign]
     ELSE fl[f]]

\* Mutant of UpdateFlight: the UPDATE always binds the callsign, so a report
\* without one clears the column.
UpdateFlightClearing(fl, fid, callsign, t) ==
  [f \in 1..Len(fl) |->
     IF f # fid THEN fl[f]
     ELSE [fl[f] EXCEPT !.last_contact = t,
                        !.callsign = IF Truthy(callsign) THEN callsign ELSE None]]

\* UPDATE flights SET last_contact = CURRENT_TIMESTAMP [, callsign = :call]
\* WHERE flight_id = :fid   (lines 407-420 and 447-460)
UpdateFlight(fl, fid, callsign, t) ==
  [f \in 1..Len(fl) |->
     IF f # fid THEN fl[f]
     ELSE IF Truthy(callsign)
          THEN [fl[f] EXCEPT !.last_contact = t, !.callsign = callsign]
          ELSE [fl[f] EXCEPT !.last_contact = t]]

\* Mutant of InsertFlight: the insert also ends the address's open flights.
InsertFlightEndingOld(fl, icao, callsign, t) ==
  Append([f \in 1..Len(fl) |->
            IF fl[f].icao_address = icao THEN [fl[f] EXCEPT !.is_active = FALSE]
            ELSE fl[f]],
         [icao_address |-> icao,
          callsign     |-> IF Truthy(callsign) THEN callsign ELSE None,
          is_active    |-> TRUE,
          last_contact |-> t])

\* INSERT INTO flights (icao_address, callsign, is_active) VALUES (.., .., 1)
\* (lines 466-475); last_contact takes the column default, the insert time.
InsertFlight(fl, icao, callsign, t) ==
  Append(fl, [icao_address |-> icao,
              callsign     |-> IF Truthy(callsign) THEN callsign ELSE None,
              is_active    |-> TRUE,
              last_contact |-> t])

\* Mutant of CachePut: the index is rebuilt with the one entry.
CachePutAlone(af, icao, fid, t) ==
  [x \in {icao} |-> [flight_id |-> fid, last_seen |-> t]]

\* active_flights[icao] = {'flight_id': fid, 'last_seen': current_time}
CachePut(af, icao, fid, t) ==
  [x \in DOMAIN af \cup {icao} |->
     IF x = icao THEN [flight_id |-> fid, last_seen |-> t] ELSE af[x]]

\* What one call of get_or_create_flight yields: the new table and index,
\* the returned flight id (0 when the call raised) and the path taken.
Resolved(fl, af, fid, raised, path) ==
  [flights |-> fl, active_flights |-> af, flight_id |-> fid,
   raised |-> raised, path |-> path]

\* Mutant of WarmPath: an index entry past the timeout is not trusted and a
\* new flight is inserted instead.
WarmPathRevalidating(fl, af, icao, callsign, t, fail) ==
  IF PastTimeout(af[icao].last_seen, t)
  THEN IF fail = "flight"
       THEN Resolved(fl, af, 0, TRUE, "create")
       ELSE LET fl1 == InsertFlight(fl, icao, callsign, t)
            IN  Resolved(fl1, CachePut(af, icao, Len(fl1), t), Len(fl1), FALSE, "create")
  ELSE LET fid == af[icao].flight_id
           af1 == CachePut(af, icao, fid, t)
       IN  IF fail = "flight"
           THEN Resolved(fl, af1, 0, TRUE, "warm")
           ELSE Resolved(UpdateFlight(fl, fid, callsign, t), af1, fid, FALSE, "warm")

\* Lines 399-421, the index holds the address: refresh last_seen, update the
\* row, return the cached id.  `fail` names the statement that raises.
WarmPath(fl, af, icao, callsign, t, fail) ==
  LET fid == af[icao].flight_id
      af1 == CachePut(af, icao, fid, t)
  IN  IF fail = "flight"
      THEN Resolved(fl, af1, 0, TRUE, "warm")
      ELSE Resolved(UpdateFlight(fl, fid, callsign, t), af1, fid, FALSE, "warm")

\* Lines 438-463, the SELECT returned row `found`: adopt it into the index,
\* update the row, return its id.
ResumePath(fl, af, icao, callsign, t, found, fail) ==
  LET af1 == CachePut(af, icao, found, t)
  IN  IF fail = "flight"
      THEN Resolved(fl, af1, 0, TRUE, "resume")
      ELSE Resolved(UpdateFlight(fl, found, callsign, t), af1, found, FALSE, "resume")

\* Lines 465-485, the SELECT returned no row: insert a flight, add it to the
\* index, return the new id.
CreatePath(fl, af, icao, callsign, t, fail) ==
  IF fail = "flight"
  THEN Resolved(fl, af, 0, TRUE, "create")
  ELSE LET fl1 == InsertFlight(fl, icao, callsign, t)
       IN  Resolved(fl1, CachePut(af, icao, Len(fl1), t), Len(fl1), FALSE, "create")

\* get_or_create_flight(cursor, icao_address, callsign) at time t, where the
\* cold SELECT returns row `found` (0: none).
get_or_create_flight(fl, af, icao, callsign, t, found, fail) ==
  IF CacheHit(af, icao) THEN WarmPath(fl, af, icao, callsign, t, fail)
  ELSE IF fail = "query" THEN Resolved(fl, af, 0, TRUE, "query")
  ELSE IF found # 0 THEN ResumePath(fl, af, icao, callsign, t, found, fail)
  ELSE CreatePath(fl, af, icao, callsign, t, fail)

\* The stored procedure end_stale_flights: is_active = 0 on the rows past
\* the continuity timeout.
end_stale_flights(fl, t) ==
  [f \in 1..Len(fl) |->
     IF fl[f].is_active /\ PastTimeout(fl[f].last_contact, t)
     THEN [fl[f] EXCEPT !.is_active = FALSE]
     ELSE fl[f]]

\* Mutant of PruneIndex: the entries are measured against the cleanup
\* interval instead of the continuity timeout.
PruneIndexByInterval(af, t) ==
  [x \in {y \in DOMAIN af :
            ~((t - af[y].last_seen) * TickMinutes * 60 > CLEANUP_INTERVAL_SECONDS)}
     |-> af[x]]

\* Lines 138-147: drop the index entries not seen within the timeout.
PruneIndex(af, t) ==
  [x \in {y \in DOMAIN af : ~PastTimeout(af[y].last_seen, t)} |-> af[x]]

\* Mutant of cleanup_stale_flights: the pruning is done outside the try
\* block, whether or not the procedure call raised.
cleanup_stale_flights_pruning_anyway(fl, af, t, fails) ==
  [flights |-> IF fails THEN fl ELSE end_stale_flights(fl, t),
   active_flights |-> PruneIndex(af, t)]

\* cleanup_stale_flights(cursor) at time t; when the procedure call raises,
\* the except clause skips the pruning.
cleanup_stale_flights(fl, af, t, fails) ==
  IF fails
  THEN [flights |-> fl, active_flights |-> af]
  ELSE [flights |-> end_stale_flights(fl, t), active_flights |-> PruneIndex(af, t)]

\* ------------------------------------------------------------------ alerts
\* alert_value.startswith('>') / ('<') and int(alert_value[1:]) over the rule
\* values of the model; int(...) of a non-numeric remainder raises, which
\* the bare except of lines 176-177 swallows.
AlertPrefix(v) ==
  CASE v \in {">35000", ">abc"} -> ">"
    [] v \in {"<10000"}         -> "<"
    [] OTHER                    -> ""

AlertNumberOk(v) == v \in {">35000", "<10000"}

AlertNumber(v) ==
  CASE v = ">35000" -> 35000
    [] v = "<10000" -> 10000

\* Python truthiness of data['altitude']: None and 0 are falsy.
AltitudeTruthy(a) == a # None /\ a # Some(0)

\* Mutant of Triggered: an ALTITUDE rule is matched on its comparator
\* alone, a remainder that is no number counting as 0.
TriggeredUnparsed(rule, data) ==
  \/ rule.alert_type = "ICAO" /\ data.icao_address = Some(Upper(rule.alert_value))
  \/ rule.alert_type = "CALLSIGN" /\ data.callsign = Some(Upper(rule.alert_value))
  \/ rule.alert_type = "SQUAWK" /\ data.squawk = Some(rule.alert_value)
  \/ /\ rule.alert_type = "ALTITUDE"
     /\ AltitudeTruthy(data.altitude)
     /\ LET n == IF AlertNumberOk(rule.alert_value)
                 THEN AlertNumber(rule.alert_value) ELSE 0
        IN  \/ AlertPrefix(rule.alert_value) = ">" /\ data.altitude[1] > n
            \/ AlertPrefix(rule.alert_value) = "<" /\ data.altitude[1] < n

\* Mutant of Triggered: the callsign is compared with the rule's value as
\* stored, without upper-casing it.
TriggeredVerbatim(rule, data) ==
  \/ rule.alert_type = "ICAO" /\ data.icao_address = Some(Upper(rule.alert_value))
  \/ rule.alert_type = "CALLSIGN" /\ data.callsign = Some(rule.alert_value)
  \/ rule.alert_type = "SQUAWK" /\ data.squawk = Some(rule.alert_value)
  \/ /\ rule.alert_type = "ALTITUDE"
     /\ AltitudeTruthy(data.altitude)
     /\ AlertNumberOk(rule.alert_value)
     /\ \/ AlertPrefix(rule.alert_value) = ">" /\ data.altitude[1] > AlertNumber(rule.alert_value)
        \/ AlertPrefix(rule.alert_value) = "<" /\ data.altitude[1] < AlertNumber(rule.alert_value)

\* Lines 160-177: whether one rule is triggered by a report.
Triggered(rule, data) ==
  \/ rule.alert_type = "ICAO" /\ data.icao_address = Some(Upper(rule.alert_value))
  \/ rule.alert_type = "CALLSIGN" /\ data.callsign = Some(Upper(rule.alert_value))
  \/ rule.alert_type = "SQUAWK" /\ data.squawk = Some(rule.alert_value)
  \/ /\ rule.alert_type = "ALTITUDE"
     /\ AltitudeTruthy(data.altitude)
     /\ AlertNumberOk(rule.alert_value)
     /\ \/ AlertPrefix(rule.alert_value) = ">" /\ data.altitude[1] > AlertNumber(rule.alert_value)
        \/ AlertPrefix(rule.alert_value) = "<" /\ data.altitude[1] < AlertNumber(rule.alert_value)

\* Whether evaluating one rule raises to the caller of check_alerts: the
\* only conversion, int(alert_value[1:]), sits in the try of lines 171-177,
\* whose bare except swallows every exception.
AltitudeCheckRaises(rule, data) == FALSE

\* Whether the INSERT of lines 181-194 raises under fault `fails`: "alert"
\* makes every INSERT of the call raise, "alert_first" the first one only.
InsertEventRaises(fails) == fails \in {"alert", "alert_first"}

\* The fault left for the rules after one whose INSERT was attempted.
AfterInsertEvent(fails) == IF fails = "alert_first" THEN "none" ELSE fails

\* Mutant of check_alerts: the loop over the rules ends at the first INSERT
\* that raises.
RECURSIVE check_alerts_stopping(_, _, _, _, _)
check_alerts_stopping(rules, data, flight_id, hist, fails) ==
  IF rules = <<>> THEN [hist |-> hist, raised |-> FALSE, failed |-> FALSE]
  ELSE LET r   == Head(rules)
           hit == Triggered(r, data)
       IN  IF hit /\ InsertEventRaises(fails)
           THEN [hist |-> hist, raised |-> FALSE, failed |-> TRUE]
           ELSE check_alerts_stopping(
                  Tail(rules), data, flight_id,
                  IF hit THEN Append(hist, [alert_id |-> r.alert_id,
                                            flight_id |-> flight_id,
                                            icao_address |-> data.icao_address[1]])
                  ELSE hist,
                  fails)

\* check_alerts(cursor, data, flight_id): one alert_history row per triggered
\* rule, in rule order; when the INSERT raises the except clause of lines
\* 203-204 swallows it and the loop goes on.  The result holds the
\* alert_history table, whether an exception left the function, and whether
\* an INSERT failed and was swallowed.
RECURSIVE check_alerts(_, _, _, _, _)
check_alerts(rules, data, flight_id, hist, fails) ==
  IF rules = <<>> THEN [hist |-> hist, raised |-> FALSE, failed |-> FALSE]
  ELSE LET r == Head(rules)
       IN  IF AltitudeCheckRaises(r, data)
           THEN [hist |-> hist, raised |-> TRUE, failed |-> FALSE]
           ELSE
             LET hit == Triggered(r, data)
                 bad == hit /\ InsertEventRaises(fails)
                 h   == IF hit /\ ~bad
                        THEN Append(hist, [alert_id |-> r.alert_id,
                                           flight_id |-> flight_id,
                                           icao_address |-> data.icao_address[1]])
                        ELSE hist
                 rest == check_alerts(Tail(rules), data, flight_id, h,
                                      IF hit THEN AfterInsertEvent(fails) ELSE fails)
             IN  [rest EXCEPT !.failed = rest.failed \/ bad]

\* The alerts table's active rows: SELECT alert_id, alert_type, alert_value
\* FROM alerts WHERE is_active = 1   (lines 119-124)
AlertTable ==
  << [alert_id |-> 1, alert_type |-> "ALTITUDE", alert_value |-> ">35000"] >>

\* -------------------------------------------------------------- aircraft
\* The aircraft table is a function from the addresses that have a row to
\* [registration, aircraft_type, photo_url, last_seen]; NULL is None.  The
\* reference data aircraft_db is a function from the addresses it knows to
\* [registration, aircraft_type], '' standing for an unknown value as in
\* lines 275-291.
NoAircraft == [x \in {} |-> 0]
EmptyDb == [x \in {} |-> 0]

\* What load_aircraft_database (lines 249-295) may leave in aircraft_db: the
\* download and the local file both fail (nothing), or the data knows the
\* registration and type of A1B2C3.
AircraftDbs ==
  { EmptyDb,
    [x \in {"A1B2C3"} |-> [registration |-> "G-ABCD", aircraft_type |-> "A320"]] }

\* aircraft_db.get(icao_address.upper(), {}) followed by .get(key): a missing
\* record gives None for every key.
AircraftInfo(db, icao) ==
  IF Upper(icao) \in DOMAIN db
  THEN [registration  |-> Some(db[Upper(icao)].registration),
        aircraft_type |-> Some(db[Upper(icao)].aircraft_type)]
  ELSE [registration |-> None, aircraft_type |-> None]

\* f"https://www.jetphotos.com/registration/{registration}"
PhotoUrl(registration) == "https://www.jetphotos.com/registration/" \o registration

\* A bind value as the store keeps it: None and '' are both NULL.
Stored(o) == IF Truthy(o) THEN o ELSE None

\* Lines 369-389, the row exists.  With a registration in the reference
\* data: UPDATE aircraft SET last_seen, photo_url WHERE icao_address = :icao
\* AND (photo_url IS NULL OR registration IS NULL), which matches no row
\* when both are set.  Without: UPDATE aircraft SET last_seen.
UpdateAircraft(ac, db, icao, t) ==
  LET reg == AircraftInfo(db, icao).registration
  IN  IF Truthy(reg)
      THEN IF ac[icao].photo_url = None \/ ac[icao].registration = None
           THEN [ac EXCEPT ![icao].last_seen = t,
                           ![icao].photo_url = Some(PhotoUrl(reg[1]))]
           ELSE ac
      ELSE [ac EXCEPT ![icao].last_seen = t]

\* Lines 338-367, no row yet: INSERT INTO aircraft with what the reference
\* data knows; last_seen takes the column default, the insert time.
InsertAircraft(ac, db, icao, t) ==
  LET info == AircraftInfo(db, icao)
  IN  [x \in DOMAIN ac \cup {icao} |->
         IF x # icao THEN ac[x]
         ELSE [registration  |-> Stored(info.registration),
               aircraft_type |-> Stored(info.aircraft_type),
               photo_url     |-> IF Truthy(info.registration)
                                 THEN Some(PhotoUrl(info.registration[1]))
                                 ELSE None,
               last_seen     |-> t]]

\* What load_aircraft_database (line 604) leaves in aircraft_db when the
\* download and the local file both fail (lines 257-268): nothing.  The
\* supervisor runs in this state; what ensure_aircraft_exists does with
\* reference data loaded is followed by the aircraft harness.
NoReferenceData == EmptyDb

\* ensure_aircraft_exists(cursor, icao_address) at time t.
ensure_aircraft_exists(ac, db, icao, t) ==
  IF icao \notin DOMAIN ac THEN InsertAircraft(ac, db, icao, t)
  ELSE UpdateAircraft(ac, db, icao, t)

\* ---------------------------------------------------------- store_position
\* Mutant of PositionRow: the row is written without its flight id.
PositionRowWithoutFlight(flight_id, data, t) ==
  [flight_id |-> 0, icao_address |-> data.icao_address[1],
   coords |-> data.latitude # None /\ data.longitude # None,
   received_time |-> t]

\* The row of lines 559-588, INSERT INTO positions (flight_id, icao_address,
\* ...): of the report's own columns only whether both coordinates are
\* there is kept; received_time takes the column default, the insert time.
PositionRow(flight_id, data, t) ==
  [flight_id |-> flight_id, icao_address |-> data.icao_address[1],
   coords |-> data.latitude # None /\ data.longitude # None,
   received_time |-> t]

\* store_position(cursor, data) at time t.  `found` is the row the cold
\* SELECT returns and `fail` the statement that raises; writes made before
\* the raise stay in the open transaction (nothing rolls back).
store_position(ac, db, fl, af, hist, pos, rules, data, t, found, fail) ==
  LET same == [aircraft |-> ac, flights |-> fl, active_flights |-> af,
               alert_history |-> hist, positions |-> pos,
               raised |-> FALSE, path |-> "skip", flight_id |-> 0, alerts |-> ""]
  IN  IF ~Truthy(data.icao_address) THEN same
      ELSE IF fail = "aircraft" THEN [same EXCEPT !.raised = TRUE, !.path = "aircraft"]
      ELSE
        LET icao == data.icao_address[1]
            ac1  == ensure_aircraft_exists(ac, db, icao, t)
            g    == get_or_create_flight(fl, af, icao, data.callsign, t, found, fail)
        IN  IF g.raised
            THEN [same EXCEPT !.aircraft = ac1, !.flights = g.flights,
                              !.active_flights = g.active_flights,
                              !.raised = TRUE, !.path = g.path]
            ELSE
              LET a  == check_alerts(rules, data, g.flight_id, hist, fail)
                  a1 == IF a.raised THEN "raised"
                        ELSE IF ~a.failed THEN "ok"
                        ELSE IF fail = "alert_first" THEN "failed_first"
                        ELSE "failed"
              IN  IF a.raised \/ fail = "position"
                  THEN [aircraft |-> ac1, flights |-> g.flights,
                        active_flights |-> g.active_flights,
                        alert_history |-> a.hist, positions |-> pos,
                        raised |-> TRUE, path |-> g.path, flight_id |-> g.flight_id,
                        alerts |-> a1]
                  ELSE [aircraft |-> ac1, flights |-> g.flights,
                        active_flights |-> g.active_flights,
                        alert_history |-> a.hist,
                        positions |-> Append(pos, PositionRow(g.flight_id, data, t)),
                        raised |-> FALSE, path |-> g.path, flight_id |-> g.flight_id,
                        alerts |-> a1]

\* ------------------------------------------------------------------- feed
\* A 22-field BaseStation record.
MkLine(marker, icao, callsign, altitude) ==
  << marker, "3", "", "", icao, "", "2026/01/21", "12:00:00.000", "", "",
     callsign, altitude, "450", "90", "51.5", "-0.1", "0", "7000",
     "0", "0", "0", "0" >>

\* The lines the feed delivers to the supervisor: reports of two aircraft
\* with and without callsign, a record cut short, a record of another
\* message kind, a report whose altitude is not a number, and a report
\* without transponder address.  The first report carries no coordinates
\* (fields 14 and 15 empty).
FeedLines ==
  << [MkLine("MSG", "A1B2C3", "", "") EXCEPT ![15] = "", ![16] = ""],
     MkLine("MSG", "A1B2C3", "baw123 ", "36000"),
     MkLine("MSG", "C0FFEE", "", ""),
     SubSeq(MkLine("MSG", "A1B2C3", "", ""), 1, 21),
     MkLine("STA", "A1B2C3", "", ""),
     MkLine("MSG", "A1B2C3", "", "abc"),
     MkLine("MSG", "", "", "") >>

\* Further reports, fed to the line loop by the alert harness only: the
\* altitudes 0, 450 and -500, and a callsign field of blanks.
AlertLines ==
  << MkLine("MSG", "A1B2C3", "baw123 ", "0"),
     MkLine("MSG", "A1B2C3", "", "450"),
     MkLine("MSG", "A1B2C3", "", "-500"),
     MkLine("MSG", "A1B2C3", "  ", "450") >>

AllLines == FeedLines \o AlertLines

\* What the decoder makes of each line.
FeedParsed == [l \in 1..Len(AllLines) |-> parse_basestation_message(AllLines[l])]

Icaos == {"A1B2C3", "C0FFEE"}

\* ------------------------------------------------------------------ state
VARIABLES
  now,               \* the clock, in ticks
  pc,                \* where main() stands
  fed,               \* lines the feed has delivered so far
  buffer,            \* complete lines received and not yet processed (indices into FeedLines)
  message_count,     \* main(): message_count
  last_commit_time,  \* main(): last_commit_time
  last_cleanup_time, \* main(): last_cleanup_time
  alert_rules,       \* module global alert_rules
  aircraft_db,       \* module global aircraft_db (the reference data)
  active_flights,    \* module global active_flights
  aircraft,          \* table aircraft
  flights,           \* table flights
  positions,         \* table positions
  alert_history,     \* table alert_history
  committed,         \* the tables as of the last commit
  sock,              \* main(): the feed socket
  db_conn,           \* main(): the store connection (and its cursor)
  lastOp,           \* history: what the last step did
  chain,             \* history: whether the reports of Tracked form an unbroken chain
  line,              \* decoder harness: the raw line under decoding
  parsed             \* decoder harness: the decoder's result

memvars == <<buffer, message_count, last_commit_time, last_cleanup_time,
             alert_rules, aircraft_db, active_flights>>
storevars == <<aircraft, flights, positions, alert_history>>
handlevars == <<committed, sock, db_conn>>
parsevars == <<line, parsed>>
vars == <<now, pc, fed, memvars, storevars, handlevars, lastOp, chain, parsevars>>

\* What a commit makes durable: the four tables as they stand.
Tables == <<aircraft, flights, positions, alert_history>>
NoTables == << NoAircraft, <<>>, <<>>, <<>> >>

\* The index with no entry.
EmptyIndex == [x \in {} |-> 0]

NoOp(op) == [op |-> op, line |-> 0, icao |-> "", path |-> "", flight_id |-> 0,
             outcome |-> "", stale |-> FALSE, alerts |-> "", routes |-> <<>>]

\* The address whose chain of reports the history variable chain follows.
Tracked == "A1B2C3"

\* chain.arr / .res: every report of Tracked so far arrived (.arr), or reached
\* get_or_create_flight (.res), within the timeout of the one before, with no
\* restart since the first; .lastArr / .lastRes: when the last one did (-1:
\* none yet).
ChainStart == [arr |-> TRUE, lastArr |-> -1, res |-> TRUE, lastRes |-> -1]
ChainDead == [arr |-> FALSE, lastArr |-> -1, res |-> FALSE, lastRes |-> -1]

Init ==
  /\ now = 0
  /\ pc = "start"
  /\ fed = 0
  /\ buffer = <<>>
  /\ message_count = 0
  /\ last_commit_time = 0
  /\ last_cleanup_time = 0
  /\ alert_rules = <<>>
  /\ aircraft_db = EmptyDb
  /\ active_flights = EmptyIndex
  /\ aircraft = NoAircraft
  /\ flights = <<>>
  /\ positions = <<>>
  /\ alert_history = <<>>
  /\ committed = NoTables
  /\ sock = "none"
  /\ db_conn = "none"
  /\ lastOp = NoOp("init")
  /\ chain = ChainStart
  /\ line = <<>>
  /\ parsed = [kind |-> "idle"]

\* ---------------------------------------------------------------- actions
\* Elapsed seconds between two clock readings.
Elapsed(since, t) == (t - since) * TickMinutes * 60

\* Time passes while the process is blocked in recv(); against a tick of
\* TickMinutes the waits in connect() and sleep(5) are short, and no clock is
\* read between them and the next recv().
Tick ==
  /\ pc = "recv"
  /\ now < MaxTime
  /\ now' = now + 1
  /\ lastOp' = NoOp("other")
  /\ UNCHANGED <<pc, fed, memvars, storevars, handlevars, chain, parsevars>>

\* main() lines 603-631: open the store connection, load the rule set, run
\* the initial cleanup, commit, set the counters.  A restart (execv) re-enters
\* here from a cold state.
Startup(cleanupFails) ==
  /\ pc = "start"
  /\ LET c == cleanup_stale_flights(flights, active_flights, now, cleanupFails)
     IN  /\ flights' = c.flights
         /\ active_flights' = c.active_flights
         /\ committed' = <<aircraft, c.flights, positions, alert_history>>
  /\ db_conn' = "open"
  /\ alert_rules' = AlertTable
  /\ aircraft_db' = NoReferenceData
  /\ message_count' = 0
  /\ last_commit_time' = now
  /\ last_cleanup_time' = now
  /\ buffer' = <<>>
  /\ pc' = "connect"
  /\ lastOp' = NoOp("startup")
  /\ UNCHANGED <<now, fed, aircraft, positions, alert_history, sock, chain, parsevars>>

\* The process is gone: its memory with it.  The handles are left as the
\* code left them, and the tables keep showing the writes of the open
\* transaction, which the store discards unless committed = Tables.
Halt(state, op) ==
  /\ pc' = state
  /\ buffer' = <<>>
  /\ message_count' = 0
  /\ last_commit_time' = 0
  /\ last_cleanup_time' = 0
  /\ alert_rules' = <<>>
  /\ aircraft_db' = EmptyDb
  /\ active_flights' = EmptyIndex
  /\ lastOp' = NoOp(op)
  /\ UNCHANGED <<now, fed, storevars, chain, parsevars>>

\* connect_to_database, lines 311-330: the store cannot be reached at start;
\* the error is printed and the process ends with sys.exit(1).
StartupFail ==
  /\ pc = "start"
  /\ Halt("failed", "startup_failed")
  /\ UNCHANGED handlevars

\* Lines 748-753: KeyboardInterrupt anywhere inside the try of lines 634-746
\* (connecting, reading, processing lines, the timers): commit, close the
\* cursor and the connection, sys.exit(0).
Interrupt ==
  /\ pc \in {"connect", "recv", "lines", "commit", "cleanup"}
  /\ Halt("exited", "interrupt")
  /\ committed' = Tables
  /\ db_conn' = "closed"
  /\ UNCHANGED sock

\* KeyboardInterrupt during the time.sleep(5) of line 758: the sleep is inside
\* the except Exception handler, outside the try, so the handler of lines
\* 748-753 does not apply; the exception leaves main() and the interpreter
\* ends with a traceback, without commit.
InterruptInBackoff ==
  /\ pc = "backoff"
  /\ Halt("crashed", "interrupt")
  /\ UNCHANGED handlevars

\* Mutant of NewBuffer: what the old connection left is kept.
NewBufferKeepingRest(old) == old

\* Line 639: buffer = "" for every connection, whatever the buffer of the
\* connection before still held.
NewBuffer(old) == <<>>

\* Lines 636-640: the connection opens and the line buffer starts empty;
\* lastOp.outcome keeps what had become of the socket before ("closed": the
\* remote end had closed it), lastOp.line the first line the old buffer
\* still held (0: none).
Connect ==
  /\ pc = "connect"
  /\ buffer' = NewBuffer(buffer)
  /\ sock' = "open"
  /\ pc' = "recv"
  /\ lastOp' = [NoOp("connect") EXCEPT !.outcome = sock,
                                       !.line = IF buffer = <<>> THEN 0 ELSE Head(buffer)]
  /\ UNCHANGED <<now, fed, message_count, last_commit_time, last_cleanup_time,
                 alert_rules, aircraft_db, active_flights, storevars, committed, db_conn,
                 chain, parsevars>>

\* Mutant of ExceptionHandler: the error ends the process.
ExceptionHandlerGivingUp == "crashed"

\* Where the except Exception handler of lines 755-758 leaves the process:
\* in time.sleep(5), after which the outer while True iterates.
ExceptionHandler == "backoff"

\* sock.connect raises (line 637): a new socket object that never connected,
\* then except Exception, lines 755-758.
ConnectFail ==
  /\ pc = "connect"
  /\ sock' = "unconnected"
  /\ pc' = ExceptionHandler
  /\ lastOp' = NoOp("connect_failed")
  /\ UNCHANGED <<now, fed, memvars, storevars, committed, db_conn, chain, parsevars>>

\* time.sleep(5) is over; the outer loop connects again (there is no count
\* of attempts).
Backoff ==
  /\ pc = "backoff"
  /\ pc' = "connect"
  /\ lastOp' = NoOp("backoff")
  /\ UNCHANGED <<now, fed, memvars, storevars, handlevars, chain, parsevars>>

\* Where the loop goes after a line: on to the next buffered line, or to the
\* timers once no complete line is left (line 651).
AfterLine(rest) == IF rest = <<>> THEN "commit" ELSE "lines"

Chunks == UNION {[1..n -> 1..Len(FeedLines)] : n \in 0..MaxChunk}

\* Lines 643-648: recv() returns data holding the complete lines of `chunk`
\* (none, when the data ends before the next line break).
Recv(chunk) ==
  /\ pc = "recv"
  /\ fed + Len(chunk) <= MaxFeed
  /\ fed' = fed + Len(chunk)
  /\ buffer' = chunk
  /\ pc' = AfterLine(chunk)
  /\ lastOp' = NoOp("other")
  /\ UNCHANGED <<now, message_count, last_commit_time, last_cleanup_time,
                 alert_rules, aircraft_db, active_flights, storevars, handlevars, chain, parsevars>>

\* Where a zero-byte read leaves the process: the inner loop breaks (line
\* 646), line 746 closes the socket, and the outer while True iterates at
\* once: no exception was raised, so the sleep of line 758 is not reached.
AfterClose == "connect"

\* Mutant of Disconnected: the close path stores the last report once more.
DisconnectedReplaying(pos) ==
  IF pos = <<>> THEN pos ELSE Append(pos, pos[Len(pos)])

\* The positions table after the close path of lines 644-646 and 746, which
\* issues no store statement (no INSERT, no DELETE, no rollback).
Disconnected(pos) == pos

\* Lines 644-646 and 746: a zero-byte read.
RecvClose ==
  /\ pc = "recv"
  /\ sock' = "closed"
  /\ positions' = Disconnected(positions)
  /\ pc' = AfterClose
  /\ lastOp' = NoOp("recv_closed")
  /\ UNCHANGED <<now, fed, memvars, aircraft, flights, alert_history, committed,
                 db_conn, chain, parsevars>>

\* recv() raises: except Exception, lines 755-758; the socket is not closed.
RecvError ==
  /\ pc = "recv"
  /\ pc' = ExceptionHandler
  /\ lastOp' = NoOp("recv_error")
  /\ UNCHANGED <<now, fed, memvars, storevars, handlevars, chain, parsevars>>

\* The chain history after a report of Tracked at time t; `resolved`
\* tells whether the report reached get_or_create_flight.
ChainStep(c, t, resolved) ==
  LET arr == c.arr /\ (c.lastArr = -1 \/ ~PastTimeout(c.lastArr, t))
      res == IF resolved
             THEN c.res /\ (c.lastRes = -1 \/ ~PastTimeout(c.lastRes, t))
             ELSE c.res
  IN  [arr |-> arr, lastArr |-> IF arr THEN t ELSE -1,
       res |-> res,
       lastRes |-> IF ~res THEN -1 ELSE IF resolved THEN t ELSE c.lastRes]

\* Lines 651-667: take the first buffered line, decode it, store it, count
\* it.  An exception leaves the loop for the handler of lines 755-758.
ProcessLine(fail) ==
  /\ pc = "lines"
  /\ buffer # <<>>
  /\ LET l    == Head(buffer)
         rest == Tail(buffer)
         p    == FeedParsed[l]
     IN  /\ buffer' = rest
         /\ IF p.kind = "raise"
            THEN /\ pc' = ExceptionHandler
                 /\ lastOp' = [NoOp("line") EXCEPT !.line = l, !.outcome = "parse_raised"]
                 /\ UNCHANGED <<message_count, active_flights, storevars, chain>>
            ELSE IF p.kind = "none"
            THEN /\ pc' = AfterLine(rest)
                 /\ lastOp' = [NoOp("line") EXCEPT !.line = l, !.outcome = "rejected"]
                 /\ UNCHANGED <<message_count, active_flights, storevars, chain>>
            ELSE
              LET d == p.data
                  x == IF Truthy(d.icao_address) THEN d.icao_address[1] ELSE ""
              IN  \E found \in IF x = "" THEN {0} ELSE QueryResults(flights, x, now) :
                    LET r == store_position(aircraft, aircraft_db, flights, active_flights,
                                            alert_history, positions, alert_rules,
                                            d, now, found, fail)
                    IN  /\ aircraft' = r.aircraft
                        /\ flights' = r.flights
                        /\ active_flights' = r.active_flights
                        /\ alert_history' = r.alert_history
                        /\ positions' = r.positions
                        /\ message_count' = IF r.raised THEN message_count
                                            ELSE message_count + 1
                        /\ pc' = IF r.raised THEN ExceptionHandler ELSE AfterLine(rest)
                        /\ chain' = IF x # Tracked THEN chain
                                    ELSE ChainStep(chain, now, r.path # "aircraft")
                        /\ lastOp' = [op |-> "line", line |-> l, icao |-> x,
                                      path |-> r.path, flight_id |-> r.flight_id,
                                      outcome |-> IF r.raised THEN "raised"
                                                  ELSE IF x = "" THEN "skipped"
                                                  ELSE "stored",
                                      stale |-> /\ r.path = "warm"
                                                /\ PastTimeout(active_flights[x].last_seen, now),
                                      alerts |-> r.alerts, routes |-> <<>>]
  /\ UNCHANGED <<now, fed, last_commit_time, last_cleanup_time, alert_rules, aircraft_db,
                 handlevars, parsevars>>

\* Line 671 is false: less than commit_interval since the last commit.
CommitSkip ==
  /\ pc = "commit"
  /\ ~(Elapsed(last_commit_time, now) > commit_interval)
  /\ pc' = "cleanup"
  /\ lastOp' = NoOp("other")
  /\ UNCHANGED <<now, fed, memvars, storevars, handlevars, chain, parsevars>>

\* p.received_time > SYSDATE - (30/1440)   (line 724)
RouteWindowMinutes == 30

\* Mutant of RouteFlights: the scan does not join the positions.
RouteFlightsAllActive(fl, pos, t) == {f \in 1..Len(fl) : fl[f].is_active}

\* The SELECT DISTINCT of lines 720-729: the flights that are active and
\* have a position row with both coordinates received within the window.
\* flight_id is the key of flights, so DISTINCT leaves one row per flight.
RouteFlights(fl, pos, t) ==
  {f \in 1..Len(fl) :
     /\ fl[f].is_active
     /\ \E i \in 1..Len(pos) :
           /\ pos[i].flight_id = f
           /\ pos[i].coords
           /\ (t - pos[i].received_time) * TickMinutes < RouteWindowMinutes}

\* fetchall() (line 730): the rows, in an order the store chooses.
Orderings(S) ==
  {o \in [1..Cardinality(S) -> S] : \A i, j \in DOMAIN o : i # j => o[i] # o[j]}

\* Where the route pass of lines 719-736 may raise: nowhere (0), in the
\* SELECT (-1), or in the k-th call of update_flight_route.
RouteFaults == -1..MaxFeed

\* Lines 671-675 and 717-736: commit, then (below the restart threshold) the
\* route detection pass: the scan, one update_flight_route call per row, a
\* second commit.  The route detector is an external collaborator and writes
\* none of the tables modelled here.  An exception anywhere in the pass is
\* caught by line 735 and ends it: the calls not yet made and the second
\* commit are skipped.  lastOp.routes lists the flights whose call returned.
CommitTick(fault) ==
  /\ pc = "commit"
  /\ Elapsed(last_commit_time, now) > commit_interval
  /\ ~(message_count >= MAX_MESSAGES_BEFORE_RESTART)
  /\ last_commit_time' = now
  /\ committed' = Tables
  /\ pc' = "cleanup"
  /\ \E rows \in Orderings(RouteFlights(flights, positions, now)) :
        /\ fault <= Len(rows)
        /\ lastOp' = [NoOp("commit_tick") EXCEPT
                        !.routes = IF fault = 0 THEN rows
                                   ELSE IF fault = -1 THEN <<>>
                                   ELSE SubSeq(rows, 1, fault - 1),
                        !.outcome = IF fault = 0 THEN "committed_twice"
                                    ELSE "route_error"]
  /\ UNCHANGED <<now, fed, buffer, message_count, last_cleanup_time, alert_rules, aircraft_db,
                 active_flights, storevars, sock, db_conn, chain, parsevars>>

\* A restart ends every chain of reports that has begun.
ChainRestart(c) == IF c.lastArr # -1 \/ ~c.arr THEN ChainDead ELSE c

\* Mutant of RestartOrder: the store handle is closed before the commit and
\* the caches are cleared first.
RestartOrderCachesFirst ==
  << "clear_caches", "close_socket", "close_store", "commit", "execv" >>

\* The steps of the restart block, lines 683-715, in the order of the text.
RestartOrder ==
  << "close_socket", "commit", "close_store", "clear_caches", "execv" >>

\* Where the restart block stands: before its k-th step.
RestartPc(k) == "restart_" \o RestartOrder[k]

\* Mutant of CommitBeforeThreshold: the threshold is tested before the
\* commit, so the restart block is entered with the transaction open.
ThresholdBeforeCommit == committed

\* What is durable when the threshold test of line 678 is reached: the
\* db_conn.commit() of line 672 has made the tables durable as they stand.
CommitBeforeThreshold == Tables

\* Lines 671-682: on a commit tick the commit of line 672 is done, and with
\* the threshold reached the restart block is entered.
Restart ==
  /\ pc = "commit"
  /\ Elapsed(last_commit_time, now) > commit_interval
  /\ message_count >= MAX_MESSAGES_BEFORE_RESTART
  /\ last_commit_time' = now
  /\ committed' = CommitBeforeThreshold
  /\ pc' = RestartPc(1)
  /\ lastOp' = NoOp("restart")
  /\ UNCHANGED <<now, fed, buffer, message_count, last_cleanup_time, alert_rules, aircraft_db,
                 active_flights, storevars, sock, db_conn, chain, parsevars>>

\* One step of the restart block.  Each of the first three is wrapped in
\* try / bare except (lines 684-704), so none of them leaves the block.  A
\* commit on a closed handle raises and is swallowed; execv starts main() from
\* the top in a new image with fresh globals and no open handle.
RestartStep(k) ==
  /\ pc = RestartPc(k)
  /\ LET step == RestartOrder[k]
     IN  /\ sock' = IF step = "close_socket" THEN "closed"
                    ELSE IF step = "execv" THEN "none" ELSE sock
         /\ committed' = IF step = "commit" /\ db_conn = "open" THEN Tables
                         ELSE committed
         /\ db_conn' = IF step = "close_store" THEN "closed"
                       ELSE IF step = "execv" THEN "none" ELSE db_conn
         /\ active_flights' = IF step \in {"clear_caches", "execv"} THEN EmptyIndex
                              ELSE active_flights
         /\ IF step = "execv"
            THEN /\ alert_rules' = <<>>
                 /\ aircraft_db' = EmptyDb
                 /\ buffer' = <<>>
                 /\ message_count' = 0
                 /\ last_commit_time' = 0
                 /\ last_cleanup_time' = 0
                 /\ pc' = "start"
                 /\ chain' = ChainRestart(chain)
            ELSE /\ pc' = RestartPc(k + 1)
                 /\ aircraft_db' = IF step = "clear_caches" THEN EmptyDb
                                   ELSE aircraft_db
                 /\ UNCHANGED <<alert_rules, buffer, message_count, last_commit_time,
                                last_cleanup_time, chain>>
         /\ lastOp' = NoOp(step)
  /\ UNCHANGED <<now, fed, storevars, parsevars>>

\* Line 739 is false.
CleanupSkip ==
  /\ pc = "cleanup"
  /\ ~(Elapsed(last_cleanup_time, now) > CLEANUP_INTERVAL_SECONDS)
  /\ pc' = "recv"
  /\ lastOp' = NoOp("other")
  /\ UNCHANGED <<now, fed, memvars, storevars, handlevars, chain, parsevars>>

\* Lines 739-744: the sweep, a commit, and the cleanup timer restarts.
CleanupTick(cleanupFails) ==
  /\ pc = "cleanup"
  /\ Elapsed(last_cleanup_time, now) > CLEANUP_INTERVAL_SECONDS
  /\ LET c == cleanup_stale_flights(flights, active_flights, now, cleanupFails)
     IN  /\ flights' = c.flights
         /\ active_flights' = c.active_flights
         /\ committed' = <<aircraft, c.flights, positions, alert_history>>
  /\ last_cleanup_time' = now
  /\ pc' = "recv"
  /\ lastOp' = [NoOp("cleanup") EXCEPT
                  !.outcome = IF cleanupFails THEN "sweep_error" ELSE "swept"]
  /\ UNCHANGED <<now, fed, buffer, message_count, last_commit_time, alert_rules, aircraft_db,
                 aircraft, positions, alert_history, sock, db_conn, chain, parsevars>>

Next ==
  \/ Tick
  \/ \E b \in BOOLEAN : Startup(b)
  \/ StartupFail
  \/ Interrupt
  \/ InterruptInBackoff
  \/ \E k \in 1..Len(RestartOrder) : RestartStep(k)
  \/ Connect
  \/ ConnectFail
  \/ Backoff
  \/ \E c \in Chunks : Recv(c)
  \/ RecvClose
  \/ RecvError
  \/ \E fail \in FailPoints : ProcessLine(fail)
  \/ CommitSkip
  \/ \E fault \in RouteFaults : CommitTick(fault)
  \/ Restart
  \/ CleanupSkip
  \/ \E b \in BOOLEAN : CleanupTick(b)

Spec == Init /\ [][Next]_vars

\* The same machine with the progress the code's control flow gives: the
\* time.sleep(5) of line 758 returns (unless interrupted), a connection
\* attempt ends, with a connection or with an error, and the straight-line
\* restart block of lines 683-715 runs to its end.
SpecLive ==
  /\ Spec
  /\ WF_vars(Backoff)
  /\ WF_vars(Connect \/ ConnectFail)
  /\ WF_vars(\E k \in 1..Len(RestartOrder) : RestartStep(k))

\* ---------------------------------------------------------------- dashboard
\* The request handlers of the web application (adsb_webapp_latest.py).
Routes == {"/", "/routes", "/history", "/map", "/api/aircraft", "/stats"}

\* get_db_connection, lines 72-86, and the end of every handler that opened
\* a connection.
OpenSession == << "connect", "ALTER SESSION" >>
CloseSession == << "close" >>

\* Mutant of Statements: the front page counts its visits in the store.
StatementsCounting(route) ==
  IF route = "/map" THEN <<>>
  ELSE OpenSession \o << "SELECT", "INSERT", "COMMIT" >> \o CloseSession

\* The statements each handler sends to the store, in the order of the text:
\* index 818-881, routes 883-939, history 941-970, map_view 972-975 (renders
\* a template and opens no connection), api_aircraft 977-1046, stats
\* 1048-1097.
Statements(route) ==
  CASE route = "/" ->
         OpenSession \o << "SELECT", "SELECT", "SELECT", "SELECT" >> \o CloseSession
    [] route = "/routes" ->
         OpenSession \o << "SELECT", "SELECT", "SELECT" >> \o CloseSession
    [] route = "/history" ->
         OpenSession \o << "SELECT" >> \o CloseSession
    [] route = "/map" -> <<>>
    [] route = "/api/aircraft" ->
         OpenSession \o << "SELECT", "SELECT" >> \o CloseSession
    [] route = "/stats" ->
         OpenSession \o << "SELECT", "SELECT", "SELECT", "SELECT", "SELECT" >>
           \o CloseSession

\* The store after a session has sent `stmts`, with `pending` rows inserted in
\* its open transaction: a query and a session setting write nothing, a
\* commit makes the pending rows durable and visible to every session, and
\* closing the connection discards what is pending.
RECURSIVE RunSession(_, _, _)
RunSession(stmts, pending, t) ==
  IF stmts = <<>> THEN t
  ELSE LET st == Head(stmts)
           visit == [flight_id |-> 0, icao_address |-> ""]
       IN  IF st = "INSERT" THEN RunSession(Tail(stmts), pending + 1, t)
           ELSE IF st = "COMMIT" /\ pending > 0
           THEN RunSession(Tail(stmts), pending - 1,
                           [positions |-> Append(t.positions, visit),
                            committed |-> Append(t.committed, visit)])
           ELSE IF st = "close" THEN RunSession(Tail(stmts), 0, t)
           ELSE RunSession(Tail(stmts), pending, t)

\* One request to the dashboard, served by its own process and session.
Request(route) ==
  /\ LET t == RunSession(Statements(route), 0,
                         [positions |-> positions, committed |-> committed[3]])
     IN  /\ positions' = t.positions
         /\ committed' = [committed EXCEPT ![3] = t.committed]
  /\ lastOp' = [NoOp("request") EXCEPT !.path = route]
  /\ UNCHANGED <<now, pc, fed, memvars, aircraft, flights, alert_history,
                 sock, db_conn, chain, parsevars>>

\* The collector without faults and interrupts, and the dashboard beside it.
NextDashboard ==
  \/ Tick
  \/ Startup(FALSE)
  \/ Connect
  \/ \E c \in Chunks : Recv(c)
  \/ RecvClose
  \/ ProcessLine("none")
  \/ CommitSkip
  \/ CommitTick(0)
  \/ Restart
  \/ \E k \in 1..Len(RestartOrder) : RestartStep(k)
  \/ CleanupSkip
  \/ CleanupTick(FALSE)
  \/ \E route \in Routes : Request(route)

SpecDashboard == Init /\ [][NextDashboard]_vars

\* ----------------------------------------------------------- alert harness
\* Rows the alerts table may hold (alert_id is the row's position here):
\* well-formed and malformed altitude thresholds, and one rule of each other
\* kind, each matching the reports of A1B2C3 / BAW123 / squawk 7000.
AlertRuleSet ==
  << [alert_id |-> 1, alert_type |-> "ALTITUDE", alert_value |-> ">35000"],
     [alert_id |-> 2, alert_type |-> "ALTITUDE", alert_value |-> "<10000"],
     [alert_id |-> 3, alert_type |-> "ALTITUDE", alert_value |-> "35000"],
     [alert_id |-> 4, alert_type |-> "ALTITUDE", alert_value |-> ">abc"],
     [alert_id |-> 5, alert_type |-> "ICAO",     alert_value |-> "a1b2c3"],
     [alert_id |-> 6, alert_type |-> "CALLSIGN", alert_value |-> "baw123"],
     [alert_id |-> 7, alert_type |-> "SQUAWK",   alert_value |-> "7000"],
     [alert_id |-> 8, alert_type |-> "CALLSIGN", alert_value |-> "BAW123"] >>

\* What load_alert_rules may fetch: up to MaxRules distinct rows, in any
\* order.
RuleTables ==
  UNION {{[k \in 1..n |-> AlertRuleSet[f[k]]] :
            f \in {g \in [1..n -> 1..Len(AlertRuleSet)] :
                     \A i, j \in 1..n : i # j => g[i] # g[j]}} :
         n \in 0..MaxRules}

\* The buffers of the alert harness: one to MaxChunk lines among the
\* reports with and without altitude, callsign and matching address.
AlertChunks ==
  UNION {[1..n -> {1, 2, 3} \cup (Len(FeedLines) + 1 .. Len(AllLines))] : n \in 1..MaxChunk}

\* The line loop of main() over one buffer of complete lines, with any rule
\* table loaded and an empty store.
InitAlerts ==
  /\ now = 0
  /\ pc = "lines"
  /\ fed = 0
  /\ buffer \in AlertChunks
  /\ message_count = 0
  /\ last_commit_time = 0
  /\ last_cleanup_time = 0
  /\ alert_rules \in RuleTables
  /\ aircraft_db = EmptyDb
  /\ active_flights = EmptyIndex
  /\ aircraft = NoAircraft
  /\ flights = <<>>
  /\ positions = <<>>
  /\ alert_history = <<>>
  /\ committed = NoTables
  /\ sock = "none"
  /\ db_conn = "none"
  /\ lastOp = NoOp("init")
  /\ chain = ChainStart
  /\ line = <<>>
  /\ parsed = [kind |-> "idle"]

NextAlerts == \E fail \in FailPoints : ProcessLine(fail)

SpecAlerts == InitAlerts /\ [][NextAlerts]_vars

\* ---------------------------------------------------------- resolve harness
\* Rows the flights table may hold when a report is resolved, whoever wrote
\* them: of either aircraft, active or ended, last contacted at any tick.
StoreRows ==
  [icao_address : Icaos, callsign : {None, Some("EZY45")}, is_active : BOOLEAN,
   last_contact : 0..MaxTime]

StoreTables == UNION {[1..n -> StoreRows] : n \in 0..MaxStoreFlights}

\* The indexes main() may hold over the table fl at time t: for each
\* address no entry, or an entry for one of its flights, last seen at some
\* tick up to t.
IndexesOver(fl, t) ==
  LET entries(x) ==
        {[flight_id |-> f, last_seen |-> u] :
           f \in {g \in 1..Len(fl) : fl[g].icao_address = x}, u \in 0..t}
  IN  UNION {{af \in [D -> UNION {entries(x) : x \in D}] :
                \A x \in D : af[x] \in entries(x)} : D \in SUBSET Icaos}

\* The line loop of main() over one report, from any such table and index.
InitResolve ==
  /\ now \in 0..MaxTime
  /\ pc = "lines"
  /\ fed = 0
  /\ buffer \in {<<1>>, <<2>>, <<3>>, <<Len(AllLines)>>}
  /\ message_count = 0
  /\ last_commit_time = now
  /\ last_cleanup_time = now
  /\ alert_rules = AlertTable
  /\ aircraft_db = NoReferenceData
  /\ flights \in {fl \in StoreTables : \A f \in 1..Len(fl) : fl[f].last_contact <= now}
  /\ active_flights \in IndexesOver(flights, now)
  /\ aircraft = [x \in {flights[f].icao_address : f \in 1..Len(flights)} |->
                   [registration |-> None, aircraft_type |-> None,
                    photo_url |-> None, last_seen |-> 0]]
  /\ positions = <<>>
  /\ alert_history = <<>>
  /\ committed = <<aircraft, flights, positions, alert_history>>
  /\ sock = "open"
  /\ db_conn = "open"
  /\ lastOp = NoOp("init")
  /\ chain = ChainStart
  /\ line = <<>>
  /\ parsed = [kind |-> "idle"]

NextResolve == \E fail \in FailPoints : ProcessLine(fail)

SpecResolve == InitResolve /\ [][NextResolve]_vars

\* --------------------------------------------------------- aircraft harness
\* The rows ensure_aircraft_exists can have left for address x, last seen
\* at tick u: inserted without reference data (all NULL), inserted without
\* and later seen with reference data (photo_url only), or inserted with
\* reference data (registration, type and photo_url).
AircraftRows(x, u) ==
  LET known == [registration |-> "G-ABCD", aircraft_type |-> "A320"]
  IN  {[registration |-> None, aircraft_type |-> None,
        photo_url |-> None, last_seen |-> u]}
      \cup IF x # "A1B2C3" THEN {}
           ELSE {[registration |-> None, aircraft_type |-> None,
                  photo_url |-> Some(PhotoUrl(known.registration)), last_seen |-> u],
                 [registration |-> Some(known.registration),
                  aircraft_type |-> Some(known.aircraft_type),
                  photo_url |-> Some(PhotoUrl(known.registration)), last_seen |-> u]}

\* The aircraft tables the store may hold at time t.
AircraftTables(t) ==
  LET rows(x) == UNION {AircraftRows(x, u) : u \in 0..t}
  IN  UNION {{ac \in [D -> UNION {rows(x) : x \in D}] :
                \A x \in D : ac[x] \in rows(x)} : D \in SUBSET Icaos}

\* The buffers of the aircraft harness: one to MaxChunk reports of the two
\* aircraft.
AircraftChunks == UNION {[1..n -> {1, 2, 3}] : n \in 1..MaxChunk}

\* The line loop of main() over one buffer, from any such aircraft table,
\* with or without reference data loaded, and no flight in the store.
InitAircraft ==
  /\ now \in 0..MaxTime
  /\ pc = "lines"
  /\ fed = 0
  /\ buffer \in AircraftChunks
  /\ message_count = 0
  /\ last_commit_time = now
  /\ last_cleanup_time = now
  /\ alert_rules = AlertTable
  /\ aircraft_db \in AircraftDbs
  /\ active_flights = EmptyIndex
  /\ aircraft \in AircraftTables(now)
  /\ flights = <<>>
  /\ positions = <<>>
  /\ alert_history = <<>>
  /\ committed = <<aircraft, flights, positions, alert_history>>
  /\ sock = "open"
  /\ db_conn = "open"
  /\ lastOp = NoOp("init")
  /\ chain = ChainStart
  /\ line = <<>>
  /\ parsed = [kind |-> "idle"]

NextAircraft == \E fail \in FailPoints : ProcessLine(fail)

SpecAircraft == InitAircraft /\ [][NextAircraft]_vars

\* --------------------------------------------------------- decoder harness
\* The decoder applied to single lines: a well-formed record with one field
\* replaced by each of a set of texts, the same record cut short, and the
\* record with a field more.
BaseLine == MkLine("MSG", "A1B2C3", "baw123 ", "36000")

FieldTexts == {"", " ", "  ", "abc", "12a", "450", " 450 ", "0 ", "51.5", "-500",
               "baw123 ", " BAW123 ", " MSG", "STA", "21-01-2026"}

WithField(l, i, text) == [l EXCEPT ![i + 1] = text]

DecoderLines ==
  {WithField(BaseLine, i, text) : i \in 0..21, text \in FieldTexts}
    \cup {SubSeq(BaseLine, 1, n) : n \in {1, 10, 21}}
    \cup {Append(BaseLine, text) : text \in {"", "abc"}}

InitDecoder ==
  /\ line \in DecoderLines
  /\ parsed = [kind |-> "idle"]
  /\ now = 0
  /\ pc = "start"
  /\ fed = 0
  /\ buffer = <<>>
  /\ message_count = 0
  /\ last_commit_time = 0
  /\ last_cleanup_time = 0
  /\ alert_rules = <<>>
  /\ aircraft_db = EmptyDb
  /\ active_flights = EmptyIndex
  /\ aircraft = NoAircraft
  /\ flights = <<>>
  /\ positions = <<>>
  /\ alert_history = <<>>
  /\ committed = NoTables
  /\ sock = "none"
  /\ db_conn = "none"
  /\ lastOp = NoOp("init")
  /\ chain = ChainStart

\* parsed = parse_basestation_message(line)   (line 655)
Decode ==
  /\ parsed.kind = "idle"
  /\ parsed' = parse_basestation_message(line)
  /\ UNCHANGED <<line, now, pc, fed, memvars, storevars, handlevars, lastOp, chain>>

NextDecoder == Decode

SpecDecoder == InitDecoder /\ [][NextDecoder]_vars

\* ==================================================================
\* Properties
\* ==================================================================
FlightsOf(x) == {f \in 1..Len(flights) : flights[f].icao_address = x}
ActiveFlightsOf(x) == {f \in FlightsOf(x) : flights[f].is_active}
PositionFlights(x) ==
  {positions[i].flight_id : i \in {j \in 1..Len(positions) : positions[j].icao_address = x}}

\* A step of ProcessLine that called get_or_create_flight for address x.
ResolveStep(x) ==
  /\ pc = "lines"
  /\ lastOp'.op = "line"
  /\ lastOp'.icao = x
  /\ lastOp'.path \in {"warm", "query", "resume", "create"}

\* C1: the store never holds two flights with is_active = 1 for the same
\* transponder address.
C1_OneActiveFlightPerAddress ==
  \A x \in Icaos : Cardinality(ActiveFlightsOf(x)) <= 1

\* C2: while the index holds an entry for an address, a resolve for that
\* address takes the warm path whatever the age of the entry: it inserts no
\* flight, leaves the entry's flight id in place, and the id it returns is
\* the cached one (so two such resolves in a row return the same id).
C2_WarmResolveReturnsCachedId ==
  [][\A x \in Icaos :
       (ResolveStep(x) /\ x \in DOMAIN active_flights) =>
          /\ lastOp'.path = "warm"
          /\ Len(flights') = Len(flights)
          /\ x \in DOMAIN active_flights'
          /\ active_flights'[x].flight_id = active_flights[x].flight_id
          /\ lastOp'.flight_id \in {0, active_flights[x].flight_id}]_vars

\* C2 witness: a warm resolve returned the cached id although the entry was
\* older than the continuity timeout.
C2_Witness ==
  /\ lastOp.op = "line"
  /\ lastOp.path = "warm"
  /\ lastOp.stale
  /\ lastOp.flight_id # 0
  /\ lastOp.flight_id = active_flights[lastOp.icao].flight_id

\* C3: a flight's is_active flag goes from true to false only in a step that
\* runs cleanup_stale_flights (the periodic sweep or the one at start-up),
\* never in a step of the ingestion path.
C3_OnlySweepEndsFlights ==
  [][(\E f \in 1..Len(flights) : flights[f].is_active /\ ~flights'[f].is_active)
        => (pc \in {"cleanup", "start"} /\ lastOp'.op \in {"cleanup", "startup"})]_vars

\* C3 witness: the sweep has just ended a flight.
C3_Witness ==
  /\ lastOp.op = "cleanup"
  /\ \E f \in 1..Len(flights) : ~flights[f].is_active

\* C4: once a flight is ended, no step changes its row.
C4_EndedFlightsImmutable ==
  [][\A f \in 1..Len(flights) :
       ~flights[f].is_active => (Len(flights') >= f /\ flights'[f] = flights[f])]_vars

\* The conclusion of C5 for the tracked address: at most one flight exists
\* for it, every position row of it references that flight, and the flight
\* exists once the index or a position row refers to one.
OneFlightForTracked ==
  /\ Cardinality(FlightsOf(Tracked)) <= 1
  /\ PositionFlights(Tracked) \subseteq FlightsOf(Tracked)
  /\ (Tracked \in DOMAIN active_flights \/ PositionFlights(Tracked) # {})
        => Cardinality(FlightsOf(Tracked)) = 1

GivenOrNull(l) ==
  LET c == FeedParsed[l].data.callsign IN IF Truthy(c) THEN c ELSE None

\* C6: a cold resolve for an address all of whose flights in the store (at
\* least one) have last_contact older than the continuity timeout resumes
\* none of them: when it returns, it has inserted one row (that address,
\* is_active, the given-or-null callsign), put it into the index and
\* returned its id; every older row is unchanged.
C6_ColdResolveCreatesFlight ==
  [][\A x \in Icaos :
       ( /\ ResolveStep(x)
         /\ x \notin DOMAIN active_flights
         /\ FlightsOf(x) # {}
         /\ \A f \in FlightsOf(x) : PastTimeout(flights[f].last_contact, now) )
       => /\ \A f \in 1..Len(flights) : flights'[f] = flights[f]
          /\ IF lastOp'.flight_id # 0
             THEN /\ lastOp'.path = "create"
                  /\ Len(flights') = Len(flights) + 1
                  /\ lastOp'.flight_id = Len(flights')
                  /\ flights'[Len(flights')] =
                       [icao_address |-> x, callsign |-> GivenOrNull(lastOp'.line),
                        is_active |-> TRUE, last_contact |-> now]
                  /\ x \in DOMAIN active_flights'
                  /\ active_flights'[x].flight_id = Len(flights')
             ELSE /\ Len(flights') = Len(flights)
                  /\ x \notin DOMAIN active_flights']_vars

\* C6 witness: a resolve created a flight for an address that already owned
\* an older flight row.
C6_Witness ==
  /\ lastOp.op = "line"
  /\ lastOp.path = "create"
  /\ lastOp.flight_id # 0
  /\ \E f \in FlightsOf(lastOp.icao) : f < lastOp.flight_id

\* C7: a cold resolve for an address that owns an active flight with
\* last_contact within the continuity timeout inserts no row; when it
\* returns, it returns the id of such a flight (the most recently contacted
\* one), has put it into the index and set its last_contact to the current
\* time.
C7_ColdResolveResumesFlight ==
  [][\A x \in Icaos :
       ( /\ ResolveStep(x)
         /\ x \notin DOMAIN active_flights
         /\ \E f \in ActiveFlightsOf(x) :
               (now - flights[f].last_contact) * TickMinutes < FLIGHT_TIMEOUT_MINUTES )
       => /\ Len(flights') = Len(flights)
          /\ lastOp'.flight_id # 0 =>
               /\ lastOp'.path = "resume"
               /\ lastOp'.flight_id \in ActiveFlightsOf(x)
               /\ \A g \in ActiveFlightsOf(x) :
                     flights[g].last_contact <= flights[lastOp'.flight_id].last_contact
               /\ x \in DOMAIN active_flights'
               /\ active_flights'[x].flight_id = lastOp'.flight_id
               /\ flights'[lastOp'.flight_id].last_contact = now]_vars

\* C7 witness: a resume returned a flight that had last been contacted
\* earlier.
C7_Witness ==
  /\ lastOp.op = "line"
  /\ lastOp.path = "resume"
  /\ lastOp.flight_id # 0
  /\ flights[lastOp.flight_id].last_contact = now
  /\ now > 0

\* C8: the decoder is total: it yields a report or None and never raises.
C8_DecoderNeverRaises == parsed.kind \in {"idle", "report", "none"}

\* The fields the decoder converts to numbers, and the texts that are not
\* numbers of the field's type.
NumericFields == IntFields \cup FloatFields
NotANumber(i, text) ==
  /\ text # ""
  /\ IF i \in FloatFields THEN text \notin FloatTexts ELSE text \notin IntTexts

\* C9: a 22-field MSG record in which one numeric field holds text that is
\* not a number is accepted, with that field None and every other field
\* decoded as usual (as in the same record with that field empty).
C9_BadNumberDegradesToNone ==
  \A i \in NumericFields :
     ( /\ parsed.kind # "idle"
       /\ Len(line) = 22
       /\ NotANumber(i, StripLine(line)[i + 1])
       /\ WithField(line, i, BaseLine[i + 1]) = BaseLine )
     => /\ parsed.kind = "report"
        /\ parsed = parse_basestation_message(WithField(line, i, ""))

\* What C10 calls a rejected line: fewer than 22 fields, or a first field
\* other than MSG.
ShortOrNotMSG(raw) == Len(raw) < 22 \/ raw[1] # "MSG"

\* C10: processing a line with fewer than 22 fields, or with another first
\* field than MSG, rejects it and writes nothing: the tables, the index and
\* message_count stay as they are.
C10_RejectedLineChangesNothing ==
  [][(/\ pc = "lines" /\ buffer # <<>> /\ ShortOrNotMSG(FeedLines[Head(buffer)])
      /\ lastOp'.op = "line")
        => /\ lastOp'.outcome = "rejected"
           /\ UNCHANGED <<aircraft, flights, positions, alert_history,
                          active_flights, message_count>>]_vars

\* C10 witness: a line was rejected while the store and the index held rows.
C10_Witness ==
  /\ lastOp.op = "line"
  /\ lastOp.outcome = "rejected"
  /\ ShortOrNotMSG(FeedLines[lastOp.line])
  /\ flights # <<>>
  /\ positions # <<>>
  /\ DOMAIN active_flights # {}

\* C11: the decoded callsign is the callsign field trimmed and upper-cased,
\* and None when the field is empty or holds blanks only; it is never the
\* empty string.
C11_CallsignTrimmedUpperOrNone ==
  parsed.kind = "report" =>
    LET c == Strip(Fld(StripLine(line), 10))
    IN  parsed.data.callsign = IF c = "" THEN None ELSE Some(Upper(c))

\* The alert_history rows a step appended.
NewEvents ==
  SubSeq(alert_history', Len(alert_history) + 1, Len(alert_history'))

\* An ALTITUDE rule whose value has no comparator in front, or no number
\* after it.
MalformedAltitudeRule(rule) ==
  rule.alert_type = "ALTITUDE" /\ rule.alert_value \in {"35000", ">abc"}

\* C12: an ALTITUDE rule with a malformed value never gets an alert event,
\* whatever the report, and check_alerts never raises over it.
C12_MalformedAltitudeRuleNeverMatches ==
  \A k \in 1..Len(alert_rules) :
     MalformedAltitudeRule(alert_rules[k]) =>
        /\ \A i \in 1..Len(alert_history) :
              alert_history[i].alert_id # alert_rules[k].alert_id
        /\ lastOp.alerts # "raised"

\* C12 witness: a report with an altitude passed check_alerts under a table
\* holding a malformed rule with a comparator and a rule that it matched.
C12_Witness ==
  /\ lastOp.op = "line"
  /\ lastOp.alerts = "ok"
  /\ FeedParsed[lastOp.line].data.altitude # None
  /\ \E k \in 1..Len(alert_rules) : alert_rules[k].alert_value = ">abc"
  /\ alert_history # <<>>

\* Whether the report of feed line l matches a rule, as the rule kinds are
\* specified: address, callsign or squawk equal to the rule's value, or the
\* altitude beyond the threshold.
ExpectedMatch(rule, l) ==
  LET d == FeedParsed[l].data
  IN  CASE rule.alert_type = "ICAO"     -> d.icao_address = Some(Upper(rule.alert_value))
        [] rule.alert_type = "CALLSIGN" -> d.callsign = Some(Upper(rule.alert_value))
        [] rule.alert_type = "SQUAWK"   -> d.squawk = Some(rule.alert_value)
        [] rule.alert_type = "ALTITUDE" ->
             /\ d.altitude # None
             /\ \/ rule.alert_value = ">35000" /\ d.altitude[1] > 35000
                \/ rule.alert_value = "<10000" /\ d.altitude[1] < 10000

\* C13: a report that passes check_alerts gets, for every loaded rule it
\* matches, exactly one new alert event with that rule's id and the flight
\* id resolved for the report, and no other event; earlier events stay, so
\* a rule matched again by the next report gets a further event.  (The
\* steps in which an INSERT into alert_history failed are left out.)
C13_OneEventPerMatchingRule ==
  [][(pc = "lines" /\ lastOp'.op = "line" /\ lastOp'.alerts = "ok") =>
       /\ SubSeq(alert_history', 1, Len(alert_history)) = alert_history
       /\ lastOp'.flight_id \in 1..Len(flights')
       /\ flights'[lastOp'.flight_id].icao_address = lastOp'.icao
       /\ active_flights'[lastOp'.icao].flight_id = lastOp'.flight_id
       /\ \A k \in 1..Len(alert_rules) :
            Cardinality({i \in 1..Len(NewEvents) :
                           /\ NewEvents[i].alert_id = alert_rules[k].alert_id
                           /\ NewEvents[i].flight_id = lastOp'.flight_id})
              = IF ExpectedMatch(alert_rules[k], lastOp'.line) THEN 1 ELSE 0
       /\ Len(NewEvents) =
            Cardinality({k \in 1..Len(alert_rules) :
                           ExpectedMatch(alert_rules[k], lastOp'.line)})]_vars

\* ------------------------------------------------------------------- C14
\* C14: when opening the feed connection fails the supervisor goes into the
\* backoff wait and nowhere else (the failure does not end the process); the
\* wait is left only for a new connection attempt or by an interrupt; and
\* under SpecLive a failed attempt is always followed by a new attempt unless
\* an interrupt ends the process.
C14_ConnectFailureRetriesForever ==
  /\ [][/\ lastOp'.op = "connect_failed" => pc' = "backoff"
        /\ pc = "backoff" => (pc' = "connect" \/ lastOp'.op = "interrupt")]_vars
  /\ (lastOp.op = "connect_failed") ~> (lastOp.op \in {"backoff", "interrupt"})

\* A connection attempt has failed, the wait is over and the supervisor
\* stands before its next attempt.
C14_Witness ==
  /\ pc = "connect"
  /\ lastOp.op = "backoff"
  /\ sock = "unconnected"

\* ------------------------------------------------------------------- C15
\* C15: after a zero-byte read the socket is closed and the supervisor is in
\* the backoff wait, so that the wait precedes its next connection attempt.
C15_CloseThenBackoff ==
  [][lastOp'.op = "recv_closed" => (sock' = "closed" /\ pc' = "backoff")]_vars

\* ------------------------------------------------------------------- C16
\* The last step was a fault raised while streaming: recv() raised, the
\* decoder raised, or a store statement of store_position raised.
StreamingFault ==
  \/ lastOp.op = "recv_error"
  \/ lastOp.op = "line" /\ lastOp.outcome \in {"parse_raised", "raised"}

Ended == pc \in {"exited", "crashed", "failed"}

\* C16: a fault raised while streaming leaves the supervisor in the backoff
\* wait (caught, process alive); the process ends only by an interrupt or by
\* failing to reach the store at start, and its image is replaced only by the
\* execv of the restart block; under SpecLive every streaming fault is
\* followed by a new connection attempt unless an interrupt ends the process.
C16_StreamingFaultIsNeverFatal ==
  /\ [][/\ StreamingFault' => pc' = "backoff"
        /\ (Ended' /\ ~Ended) => lastOp'.op \in {"interrupt", "startup_failed"}
        /\ (pc' = "start" /\ pc # "start") => lastOp'.op = "execv"]_vars
  /\ StreamingFault ~> (pc = "connect" \/ lastOp.op = "interrupt")

\* A store statement has raised on a report after an earlier report was
\* stored, and the supervisor is in the backoff wait.
C16_Witness ==
  /\ pc = "backoff"
  /\ lastOp.op = "line"
  /\ lastOp.outcome = "raised"
  /\ positions # <<>>

\* ------------------------------------------------------------------- C17
\* C17: when a store statement fails while a line is processed, the line
\* loop goes on with the rest of the buffer (or on to the timers when it was
\* the last line), and a complete buffered line leaves the buffer only by
\* being processed.
C17_StoreFailureLosesOneReport ==
  [][/\ (lastOp'.op = "line" /\ lastOp'.outcome = "raised")
          => (buffer' = Tail(buffer) /\ pc' = AfterLine(buffer'))
     /\ (buffer # <<>> /\ ~Ended')
          => (buffer' = buffer \/ (lastOp'.op = "line" /\ buffer' = Tail(buffer)))]_vars

\* ------------------------------------------------------------------- C18
\* C18: a step of the line loop that takes a line the decoder accepts and
\* counts it in message_count appends exactly one row to positions, and the
\* row carries the flight id the resolve returned, which is a flight of the
\* store.
C18_CountedLineStoresOnePosition ==
  [][(/\ pc = "lines"
      /\ lastOp'.op = "line"
      /\ FeedParsed[lastOp'.line].kind = "report"
      /\ message_count' = message_count + 1)
        => /\ Len(positions') = Len(positions) + 1
           /\ SubSeq(positions', 1, Len(positions)) = positions
           /\ lastOp'.flight_id \in 1..Len(flights')
           /\ positions'[Len(positions')].flight_id = lastOp'.flight_id]_vars


\* ------------------------------------------------------------------- C19
\* C19: on a commit tick with message_count at the threshold the restart
\* block is entered (unless an interrupt ends the process); its steps come in
\* the order close socket, final commit (socket closed, store handle open,
\* nothing left uncommitted), close store handle, clear caches (store handle
\* closed), replace the image (caches empty); the new image starts main() with
\* an empty index, an empty buffer, no rules and message_count = 0, and keeps
\* them so through its start-up; under SpecLive a restart once begun reaches
\* the new image.
C19_OrderlyRestart ==
  /\ [][/\ (/\ pc = "commit"
            /\ Elapsed(last_commit_time, now) > commit_interval
            /\ message_count >= MAX_MESSAGES_BEFORE_RESTART)
              => lastOp'.op \in {"restart", "interrupt"}
        /\ lastOp'.op = "restart"
              => message_count >= MAX_MESSAGES_BEFORE_RESTART
        /\ lastOp'.op = "close_socket"
              => (lastOp.op = "restart" /\ sock' = "closed")
        /\ lastOp'.op = "commit"
              => /\ lastOp.op = "close_socket"
                 /\ sock = "closed" /\ db_conn = "open"
                 /\ committed' = Tables'
        /\ lastOp'.op = "close_store"
              => (lastOp.op = "commit" /\ committed = Tables /\ db_conn' = "closed")
        /\ lastOp'.op = "clear_caches"
              => /\ lastOp.op = "close_store"
                 /\ db_conn = "closed"
                 /\ active_flights' = EmptyIndex
        /\ lastOp'.op = "execv"
              => /\ lastOp.op = "clear_caches"
                 /\ active_flights = EmptyIndex
                 /\ pc' = "start"
                 /\ active_flights' = EmptyIndex
                 /\ message_count' = 0
                 /\ buffer' = <<>>
                 /\ alert_rules' = <<>>
        /\ lastOp'.op = "startup"
              => (active_flights' = EmptyIndex /\ message_count' = 0)]_vars
  /\ (lastOp.op = "restart") ~> (lastOp.op = "execv")

\* A restarted process has finished its start-up: the store holds the rows of
\* the old process, all committed, and the new process has counted nothing
\* and tracks no flight.
C19_Witness ==
  /\ lastOp.op = "startup"
  /\ positions # <<>>
  /\ committed = Tables
  /\ active_flights = EmptyIndex
  /\ message_count = 0


\* ------------------------------------------------------------------- C20
\* C20: whatever the supervisor was doing when the interrupt arrived, the
\* process has then exited through the shutdown handler: the store connection
\* is closed and every write made before the interrupt is committed.
C20_InterruptShutsDownCleanly ==
  lastOp.op = "interrupt" =>
    /\ pc = "exited"
    /\ db_conn = "closed"
    /\ committed = Tables


\* ------------------------------------------------------------------- C21
\* The rows of positions that are committed.
CommittedPositions == committed[3]

\* C21: the steps of a disconnect and reconnect (the zero-byte read, a failed
\* connection attempt, the backoff wait, the connection) leave the committed
\* position rows as they were, all still in the store, in place and with no
\* row added to the table.
C21_ReconnectKeepsCommittedReports ==
  [][lastOp'.op \in {"recv_closed", "connect_failed", "backoff", "connect"}
       => /\ CommittedPositions' = CommittedPositions
          /\ Len(positions') = Len(positions)
          /\ SubSeq(positions', 1, Len(CommittedPositions)) = CommittedPositions]_vars

\* The feed is connected again after the remote end had closed the
\* connection, and the store holds committed position rows.
C21_Witness ==
  /\ lastOp.op = "connect"
  /\ lastOp.outcome = "closed"
  /\ CommittedPositions # <<>>
  /\ SubSeq(positions, 1, Len(CommittedPositions)) = CommittedPositions


\* ------------------------------------------------------------------- C22
\* C22: a dashboard request, whichever its route and whatever the collector
\* is doing, leaves the four tables, what is committed of them, and the
\* collector's own state as they were.
C22_DashboardIsReadOnly ==
  [][lastOp'.op = "request"
       => UNCHANGED <<storevars, committed, pc, memvars, sock, db_conn>>]_vars

\* The dashboard has served its statistics page while the collector had
\* stored reports that it had not committed yet.
C22_Witness ==
  /\ lastOp.op = "request"
  /\ lastOp.path = "/stats"
  /\ positions # <<>>
  /\ committed # Tables
  /\ pc = "lines"


\* ------------------------------------------------------------------- C23
\* The step resolves a report of address x through the store query (x has no
\* index entry) while the store holds more than one active flight of x within
\* the continuity timeout.
ColdResolveAmongSeveral(x) ==
  /\ pc = "lines"
  /\ lastOp'.op = "line"
  /\ lastOp'.icao = x
  /\ ~CacheHit(active_flights, x)
  /\ Cardinality(QueryRows(flights, x, now)) > 1

\* C23: such a resolve resumes one of the candidates and no candidate has a
\* later last_contact than the one it returns; no flight is created, and
\* the number of candidates makes no statement fail (the paths taken are the
\* resume, or the statement that an injected store fault stopped).
C23_ColdResolveTakesMostRecent ==
  [][\A x \in Icaos : ColdResolveAmongSeveral(x) =>
        /\ Len(flights') = Len(flights)
        /\ lastOp'.path \in {"resume", "query", "aircraft"}
        /\ lastOp'.path = "resume" =>
             /\ active_flights'[x].flight_id \in QueryRows(flights, x, now)
             /\ \A g \in QueryRows(flights, x, now) :
                  flights[g].last_contact <= flights[active_flights'[x].flight_id].last_contact
             /\ lastOp'.outcome = "stored" =>
                  lastOp'.flight_id = active_flights'[x].flight_id]_vars

\* A report was resolved to flight 2, the later contacted of two active
\* flights of its address within the timeout, by the store query.
C23_Witness ==
  /\ lastOp.op = "line"
  /\ lastOp.path = "resume"
  /\ lastOp.outcome = "stored"
  /\ lastOp.flight_id = 2
  /\ Len(flights) = 2
  /\ flights[1].icao_address = lastOp.icao
  /\ flights[1].is_active
  /\ flights[1].last_contact = now - 1
  /\ flights[2].last_contact = now
  /\ flights[2].is_active


\* ------------------------------------------------------------------- C24
\* C24: a step that resolves a report of address x leaves every flights row
\* but the returned one, and every index entry but that of x, as it was; when
\* the resolve returns, the returned id is a row of x, either the one new row
\* or an existing one, and x has its index entry on that id.
C24_ResolveTouchesOneFlightOneEntry ==
  [][(pc = "lines" /\ lastOp'.op = "line" /\ lastOp'.icao # "")
       => LET x   == lastOp'.icao
              fid == lastOp'.flight_id
          IN  /\ \A f \in 1..Len(flights) :
                   f # fid => (f <= Len(flights') /\ flights'[f] = flights[f])
              /\ \A y \in DOMAIN active_flights :
                   y # x => (y \in DOMAIN active_flights'
                             /\ active_flights'[y] = active_flights[y])
              /\ DOMAIN active_flights' \subseteq DOMAIN active_flights \cup {x}
              /\ fid # 0 =>
                   /\ Len(flights') \in {Len(flights), Len(flights) + 1}
                   /\ Len(flights') = Len(flights) + 1 => fid = Len(flights')
                   /\ fid \in 1..Len(flights')
                   /\ flights'[fid].icao_address = x
                   /\ flights'[fid].last_contact = now
                   /\ active_flights'[x].flight_id = fid]_vars

\* A report of A1B2C3 has been resolved to a new flight while the store held
\* a flight of C0FFEE and the index an entry for it.
C24_Witness ==
  /\ lastOp.op = "line"
  /\ lastOp.icao = "A1B2C3"
  /\ lastOp.path = "create"
  /\ lastOp.flight_id = 2
  /\ Len(flights) = 2
  /\ flights[1].icao_address = "C0FFEE"
  /\ "C0FFEE" \in DOMAIN active_flights
  /\ active_flights["C0FFEE"].flight_id = 1


\* ------------------------------------------------------------------- C25
\* The index without the entry of address x (the entry has been dropped).
WithoutEntry(af, x) == [y \in DOMAIN af \ {x} |-> af[y]]

\* The flight ids the resolve of line l for address x may return at this
\* moment when the index does not hold x: the call then takes the store
\* query of lines 423-436.
ColdIds(l, x) ==
  {get_or_create_flight(flights, WithoutEntry(active_flights, x), x,
                        FeedParsed[l].data.callsign, now, found, "none").flight_id :
     found \in QueryResults(flights, x, now)}

\* C25: a resolve answered from the index returns the flight id that the
\* same resolve returns through the store query when the address's entry has
\* been removed from the index just before it.
C25_IndexIsOnlyAShortcut ==
  [][(pc = "lines" /\ lastOp'.op = "line" /\ lastOp'.path = "warm"
        /\ lastOp'.flight_id # 0)
       => lastOp'.flight_id \in ColdIds(lastOp'.line, lastOp'.icao)]_vars


\* ------------------------------------------------------------------- C26
\* An ALTITUDE rule with a comparator and a number.
ThresholdRule(rule) ==
  rule.alert_type = "ALTITUDE" /\ AlertNumberOk(rule.alert_value)

\* The altitude of a report is present and beyond the rule's threshold on
\* the side of its comparator, as integers.
AltitudeBeyond(rule, altitude) ==
  /\ altitude # None
  /\ \/ AlertPrefix(rule.alert_value) = ">" /\ altitude[1] > AlertNumber(rule.alert_value)
     \/ AlertPrefix(rule.alert_value) = "<" /\ altitude[1] < AlertNumber(rule.alert_value)

\* C26: a report that passes check_alerts gets an event for a loaded rule
\* '>N' or '<N' exactly when its altitude is present and greater, or less,
\* than N; altitude 0 and negative altitudes are compared like any other.
C26_AltitudeRuleComparesEveryInteger ==
  [][(pc = "lines" /\ lastOp'.op = "line" /\ lastOp'.alerts = "ok") =>
       \A k \in 1..Len(alert_rules) :
          ThresholdRule(alert_rules[k]) =>
            ((\E i \in 1..Len(NewEvents) :
                 NewEvents[i].alert_id = alert_rules[k].alert_id)
             <=> AltitudeBeyond(alert_rules[k],
                                FeedParsed[lastOp'.line].data.altitude))]_vars


\* The flight an index entry of x points to is one the store query of lines
\* 424-434 may return: active, last contacted within the timeout, and no
\* other such flight of x contacted later.
EntryIsCurrent(x) ==
  LET fid == active_flights[x].flight_id
  IN  /\ flights[fid].icao_address = x
      /\ flights[fid].is_active
      /\ WithinTimeout(flights[fid].last_contact, now)
      /\ \A g \in 1..Len(flights) :
            (flights[g].icao_address = x /\ flights[g].is_active
               /\ WithinTimeout(flights[g].last_contact, now))
              => flights[g].last_contact <= flights[fid].last_contact

\* C25 (amended): a resolve answered from the index returns an id that the
\* same resolve may return through the store query, the entry having been
\* removed just before it, exactly when the entry's flight is active, within
\* the continuity timeout and the most recently contacted of its address;
\* otherwise the resolve without the entry returns another flight.
C25_ShortcutWhileEntryIsCurrent ==
  [][(pc = "lines" /\ lastOp'.op = "line" /\ lastOp'.path = "warm"
        /\ lastOp'.flight_id # 0)
       => /\ lastOp'.flight_id = active_flights[lastOp'.icao].flight_id
          /\ (lastOp'.flight_id \in ColdIds(lastOp'.line, lastOp'.icao)
                <=> EntryIsCurrent(lastOp'.icao))]_vars

\* A resolve answered from the index has returned a flight that the sweep
\* had ended, where the store query finds nothing to resume.
C25_Witness ==
  /\ lastOp.op = "line"
  /\ lastOp.path = "warm"
  /\ lastOp.outcome = "stored"
  /\ lastOp.flight_id = 1
  /\ ~flights[1].is_active
  /\ Len(flights) = 1


\* ------------------------------------------------------------------- C27
\* The alert events a step appended for the rule at position k.
EventsOfRule(k) ==
  {i \in 1..Len(NewEvents) : NewEvents[i].alert_id = alert_rules[k].alert_id}

\* C27: a report that passes check_alerts gets an event for a loaded
\* CALLSIGN rule only when its decoded callsign is the rule's value,
\* character for character; a report without callsign gets none.
C27_CallsignRuleMatchesValueExactly ==
  [][(pc = "lines" /\ lastOp'.op = "line" /\ lastOp'.alerts = "ok") =>
       \A k \in 1..Len(alert_rules) :
          (alert_rules[k].alert_type = "CALLSIGN" /\ EventsOfRule(k) # {})
            => FeedParsed[lastOp'.line].data.callsign
                 = Some(alert_rules[k].alert_value)]_vars

\* C27 (amended): a report that passes check_alerts gets an event for a
\* loaded CALLSIGN rule exactly when it has a callsign and that callsign is
\* the rule's value in upper case; a report whose callsign field is empty
\* or blank gets none.
C27_CallsignRuleMatchesUpperCasedValue ==
  [][(pc = "lines" /\ lastOp'.op = "line" /\ lastOp'.alerts = "ok") =>
       \A k \in 1..Len(alert_rules) :
          alert_rules[k].alert_type = "CALLSIGN" =>
            LET c == FeedParsed[lastOp'.line].data.callsign
            IN  /\ EventsOfRule(k) # {}
                     <=> (c # None /\ c[1] = Upper(alert_rules[k].alert_value))
                /\ Fld(StripLine(AllLines[lastOp'.line]), 10) \in {"", " ", "  "}
                     => EventsOfRule(k) = {}]_vars

\* A report with callsign BAW123 got an event for the rule of value baw123.
C27_Witness ==
  /\ lastOp.op = "line"
  /\ lastOp.alerts = "ok"
  /\ FeedParsed[lastOp.line].data.callsign = Some("BAW123")
  /\ \E k \in 1..Len(alert_rules) :
        /\ alert_rules[k].alert_type = "CALLSIGN"
        /\ alert_rules[k].alert_value = "baw123"
        /\ \E i \in 1..Len(alert_history) :
              alert_history[i].alert_id = alert_rules[k].alert_id


\* ------------------------------------------------------------------- C28
\* C28: the position row of a report is persisted before its alerts are
\* evaluated, so a step that records an alert event for a report has
\* stored that report's position row, under the same flight id.
C28_PositionBeforeAlertEvent ==
  [][(pc = "lines" /\ lastOp'.op = "line" /\ NewEvents # <<>>) =>
       /\ Len(positions') = Len(positions) + 1
       /\ positions'[Len(positions')].flight_id = NewEvents[1].flight_id]_vars


\* ------------------------------------------------------------------- C29
\* A flight is still active and has a position row with both coordinates
\* received less than 30 minutes ago.
ActiveWithRecentFix(f) ==
  /\ flights[f].is_active
  /\ \E i \in 1..Len(positions) :
        /\ positions[i].flight_id = f
        /\ positions[i].coords
        /\ (now - positions[i].received_time) * TickMinutes < 30

\* How many times the route detector was called, and returned, for flight f
\* in the step.
RouteCalls(f) ==
  Cardinality({i \in 1..Len(lastOp'.routes) : lastOp'.routes[i] = f})

StaleEntries ==
  {x \in DOMAIN active_flights : PastTimeout(active_flights[x].last_seen, now)}

\* C30: on a cleanup tick the index is pruned only after the call of
\* end_stale_flights has returned (when the call raises, no entry is
\* removed), and the pruning removes exactly the entries whose last_seen is
\* older than the continuity timeout and leaves every other entry as it was.
C30_SweepThenPruneExactlyStale ==
  [][lastOp'.op = "cleanup" =>
       /\ pc = "cleanup"
       /\ lastOp'.outcome \in {"swept", "sweep_error"}
       /\ lastOp'.outcome = "sweep_error" => active_flights' = active_flights
       /\ lastOp'.outcome = "swept" =>
            DOMAIN active_flights' = DOMAIN active_flights \ StaleEntries
       /\ \A x \in DOMAIN active_flights' :
            x \in DOMAIN active_flights /\ active_flights'[x] = active_flights[x]]_vars

\* A cleanup tick at 70 minutes has pruned the entry of A1B2C3, last seen at
\* 0, and kept that of C0FFEE, last seen at 35 minutes.
C30_Witness ==
  /\ lastOp.op = "cleanup"
  /\ lastOp.outcome = "swept"
  /\ now = 2
  /\ DOMAIN active_flights = {"C0FFEE"}
  /\ active_flights["C0FFEE"].last_seen = 1
  /\ \E f \in 1..Len(flights) :
        flights[f].icao_address = "A1B2C3" /\ flights[f].last_contact = 0


\* ------------------------------------------------------------------- C31
\* A step of the line loop that ran ensure_aircraft_exists for address x.
Sighting(x) ==
  /\ pc = "lines"
  /\ lastOp'.op = "line"
  /\ lastOp'.icao = x
  /\ lastOp'.path # "aircraft"

\* C31: a sighting creates the aircraft row when there is none, no step
\* deletes a row, and a sighting of an aircraft whose row has no
\* registration, while the reference data knows its registration and type,
\* fills both in.
C31_AircraftCreatedKeptAndBackfilled ==
  [][/\ DOMAIN aircraft \subseteq DOMAIN aircraft'
     /\ \A x \in Icaos :
          Sighting(x) =>
            /\ x \in DOMAIN aircraft'
            /\ (x \in DOMAIN aircraft /\ aircraft[x].registration = None
                  /\ Truthy(AircraftInfo(aircraft_db, x).registration))
                 => /\ aircraft'[x].registration = AircraftInfo(aircraft_db, x).registration
                    /\ aircraft'[x].aircraft_type = AircraftInfo(aircraft_db, x).aircraft_type]_vars


\* ------------------------------------------------------------------- C32
\* C32: a sighting of an aircraft that already has a row sets the row's
\* last_seen to the current time, whatever the reference data knows and
\* whatever the row holds.
C32_SightingRefreshesLastSeen ==
  [][\A x \in Icaos :
       (Sighting(x) /\ x \in DOMAIN aircraft) => aircraft'[x].last_seen = now]_vars


\* ------------------------------------------------------------------- C33
\* C33: a resolve that returns an existing flight, from the index or from
\* the store query, sets its last_contact; with a callsign in the report it
\* sets the stored callsign to it, and without one (none, or a blank field)
\* it leaves the stored callsign as it was.
C33_CallsignKeptOrOverwritten ==
  [][(pc = "lines" /\ lastOp'.op = "line" /\ lastOp'.path \in {"warm", "resume"}
        /\ lastOp'.flight_id # 0)
       => LET fid == lastOp'.flight_id
              c   == FeedParsed[lastOp'.line].data.callsign
          IN  /\ flights'[fid].last_contact = now
              /\ flights'[fid].callsign = IF Truthy(c) THEN c ELSE flights[fid].callsign
              /\ flights'[fid].is_active = flights[fid].is_active
              /\ flights'[fid].icao_address = flights[fid].icao_address]_vars

\* A report without callsign was resolved from the index to a flight that
\* keeps the callsign EZY45.
C33_Witness ==
  /\ lastOp.op = "line"
  /\ lastOp.path = "warm"
  /\ lastOp.outcome = "stored"
  /\ FeedParsed[lastOp.line].data.callsign = None
  /\ flights[lastOp.flight_id].callsign = Some("EZY45")
  /\ flights[lastOp.flight_id].last_contact = now


\* ------------------------------------------------------------------- C34
\* C34: every entry of the index points to a row of the flights table that
\* belongs to the entry's address and is active.
C34_IndexEntriesPointToActiveFlights ==
  \A x \in DOMAIN active_flights :
     LET fid == active_flights[x].flight_id
     IN  /\ fid \in 1..Len(flights)
         /\ flights[fid].icao_address = x
         /\ flights[fid].is_active


\* ------------------------------------------------------------------- C35
\* In the tables t, every position row references a flight row of the
\* position's own address, and that address has an aircraft row.
PositionsReferenced(t) ==
  \A i \in 1..Len(t[3]) :
     /\ t[3][i].flight_id \in 1..Len(t[2])
     /\ t[2][t[3][i].flight_id].icao_address = t[3][i].icao_address
     /\ t[3][i].icao_address \in DOMAIN t[1]

\* C35: every position row references a flight of its own address whose
\* aircraft row exists, in the tables as the process sees them and in the
\* tables as last committed.
C35_PositionsReferenceOwnFlightAndAircraft ==
  PositionsReferenced(Tables) /\ PositionsReferenced(committed)

\* Positions of both aircraft are stored and committed, each under its own
\* flight.
C35_Witness ==
  /\ committed = Tables
  /\ \E i, j \in 1..Len(positions) :
        /\ positions[i].icao_address = "A1B2C3"
        /\ positions[j].icao_address = "C0FFEE"
        /\ positions[i].flight_id # positions[j].flight_id


\* ------------------------------------------------------------------- C36
\* The control points of the restart block.
RestartPcs == {RestartPc(k) : k \in 1..Len(RestartOrder)}

\* C36: the restart block is entered only by the commit tick that has just
\* committed, with every write durable; no step of the block writes to the
\* store; so when execv replaces the process image the tables are all
\* committed.
C36_RestartLeavesNothingUncommitted ==
  [][/\ (pc' \in RestartPcs /\ pc \notin RestartPcs)
          => /\ pc = "commit"
             /\ lastOp'.op = "restart"
             /\ Elapsed(last_commit_time, now) > commit_interval
     /\ lastOp'.op = "restart"
          => /\ committed' = Tables
             /\ UNCHANGED storevars
     /\ pc \in RestartPcs
          => /\ UNCHANGED storevars
             /\ committed = Tables
             /\ committed' = committed
     /\ lastOp'.op = "execv"
          => /\ pc \in RestartPcs
             /\ committed' = <<aircraft', flights', positions', alert_history'>>]_vars

\* The process image has just been replaced after positions, flights and an
\* alert event were written, and all of them are committed.
C36_Witness ==
  /\ lastOp.op = "execv"
  /\ Len(positions) >= 2
  /\ alert_history # <<>>
  /\ committed = Tables


\* ------------------------------------------------------------------- C37
\* The steps from a close or a streaming fault to the next connection.
ReconnectOps == {"recv_closed", "recv_error", "connect_failed", "backoff", "connect"}

\* C37: from a close or streaming fault to the new connection, the index,
\* message_count and both timers stay as they are, and the new connection
\* starts with an empty buffer: what the old connection left unprocessed is
\* dropped, never joined with what the new one delivers.
C37_ReconnectKeepsMemoryAndStartsEmpty ==
  [][/\ lastOp'.op \in ReconnectOps
          => UNCHANGED <<active_flights, message_count, last_commit_time,
                         last_cleanup_time>>
     /\ lastOp'.op = "connect"
          => /\ buffer' = <<>>
             /\ pc' = "recv"
     /\ (pc = "recv" /\ pc' \in {"lines", "commit"})
          => /\ buffer = <<>>
             /\ Len(buffer') = fed' - fed]_vars

\* A connection has just been opened after a streaming fault that left
\* lines in the old buffer, with reports counted and flights in the index.
C37_Witness ==
  /\ lastOp.op = "connect"
  /\ lastOp.outcome = "open"
  /\ lastOp.line # 0
  /\ buffer = <<>>
  /\ message_count > 0
  /\ active_flights # EmptyIndex


\* ------------------------------------------------------------------- C38
\* C38: when the end_stale_flights call of a periodic sweep raises, the
\* error stays inside cleanup_stale_flights: no flight is ended and no index
\* entry pruned, the socket stays as it is, the loop goes on to the next
\* read, and last_cleanup_time is advanced to the current time.
C38_FailedSweepIsSwallowed ==
  [][(lastOp'.op = "cleanup" /\ lastOp'.outcome = "sweep_error")
        => /\ active_flights' = active_flights
           /\ flights' = flights
           /\ sock' = sock
           /\ sock = "open"
           /\ pc' = "recv"
           /\ last_cleanup_time' = now
           /\ last_cleanup_time' # last_cleanup_time]_vars

\* A sweep has just failed while the index held an entry past the timeout:
\* the entry is still there, the socket open, the timer advanced.
C38_Witness ==
  /\ lastOp.op = "cleanup"
  /\ lastOp.outcome = "sweep_error"
  /\ \E x \in DOMAIN active_flights : PastTimeout(active_flights[x].last_seen, now)
  /\ sock = "open"
  /\ pc = "recv"
  /\ last_cleanup_time = now


\* ------------------------------------------------------------------- C39
\* The positions in alert_rules of the rules a report triggers.
TriggeredPositions(data) ==
  {k \in 1..Len(alert_rules) : Triggered(alert_rules[k], data)}

\* C39: when recording an alert event fails inside check_alerts, the report
\* is handled to the end: no exception reaches the line loop, the triggered
\* rules after the failed one get their events (lastOp.alerts is
\* "failed_first" when only the first INSERT raised, "failed" when every
\* INSERT did), the position row is inserted under the resolved flight, and
\* the report is counted.
C39_FailedAlertEventIsSwallowed ==
  [][(pc = "lines" /\ lastOp'.op = "line"
        /\ lastOp'.alerts \in {"failed", "failed_first"}) =>
       LET T     == TriggeredPositions(FeedParsed[lastOp'.line].data)
           first == CHOOSE k \in T : \A j \in T : k <= j
       IN  /\ T # {}
           /\ EventsOfRule(first) = {}
           /\ lastOp'.alerts = "failed" => NewEvents = <<>>
           /\ lastOp'.alerts = "failed_first"
                => /\ \A k \in T \ {first} : Cardinality(EventsOfRule(k)) = 1
                   /\ Len(NewEvents) = Cardinality(T) - 1
           /\ lastOp'.outcome = "stored"
           /\ pc' \in {"lines", "commit"}
           /\ message_count' = message_count + 1
           /\ Len(positions') = Len(positions) + 1
           /\ positions'[Len(positions')].flight_id = lastOp'.flight_id
           /\ SubSeq(positions', 1, Len(positions)) = positions]_vars

\* The first stored report triggered several rules; the INSERT for one of
\* them failed, another one's event is in alert_history, and the position
\* row is stored.
C39_Witness ==
  /\ lastOp.op = "line"
  /\ lastOp.alerts = "failed_first"
  /\ lastOp.outcome = "stored"
  /\ Len(positions) = 1
  /\ alert_history # <<>>
  /\ \A i \in 1..Len(alert_history) : alert_history[i].flight_id = lastOp.flight_id


\* ------------------------------------------------------------------- C40
\* C40: a position row written while streaming ends up committed: once the
\* process has been interrupted, or has replaced its image in a restart,
\* every row of positions is committed; and no step of a disconnect, of a
\* streaming fault or of the reconnect that follows takes back a row that
\* was written, committed or not.
C40_PersistedPositionsGetCommitted ==
  /\ [](lastOp.op \in {"interrupt", "execv"} => CommittedPositions = positions)
  /\ [][(\/ lastOp'.op \in ReconnectOps
         \/ lastOp'.op = "line" /\ lastOp'.outcome \in {"raised", "parse_raised"})
          => SubSeq(positions', 1, Len(positions)) = positions]_vars

=============================================================================
